---- MODULE Spec2Model ----
(***************************************************************************)
(* Model of the meme-trading-bot: the comprehensive scorer                 *)
(* (src/src/scoring/comprehensive_scorer.py), the signal policy, the scan  *)
(* loop of MemeBot (src/src/main.py) and the paper_trades table            *)
(* (src/src/storage/database.py).                                          *)
(*                                                                         *)
(* Number conventions.  Scores are floats in the code with steps of 0.25   *)
(* points and weights with one decimal; the model counts scores in units   *)
(* of 1/Unit point so that every score, and every score times a weight, is *)
(* an integer.  A Python dict is a function whose DOMAIN holds the keys    *)
(* that are present; Get models dict.get(key, default).                    *)
(***************************************************************************)
EXTENDS Integers, Sequences, FiniteSets, TLC

VARIABLES
    config,          \* TIER_THRESHOLDS and SIGNAL_CRITERIA of the scorer (from the environment)
    token_data,      \* the snapshot handed to comprehensive_score
    market_context,  \* the market context handed to comprehensive_score
    clock,           \* time.time() of the evaluation, in seconds since the epoch
    faults,          \* where a malformed field makes a scorer raise (0 = nowhere)
    frame,           \* locals of the last comprehensive_score call
    result,          \* the ScoringResult it returned
    probe,           \* a score result handed to the signal-policy predicates
    verdict,         \* what the signal-policy predicates returned for probe
    trades,          \* rows of table paper_trades, in insertion order
    bot,             \* per bot process: position in scan_and_analyze and its locals
    journal,         \* what the step taken last did with its token or its position
    cron,            \* PaperTradePerformanceCron: position in its run, its fields and locals
    price_history,   \* rows of table price_history, in insertion order
    analysis         \* the rows analyze_timing_patterns read last

vars == <<config, token_data, market_context, clock, faults, frame, result,
          probe, verdict, trades, bot, journal, cron, price_history, analysis>>

-----------------------------------------------------------------------------
(* Python values *)

Unit == 4 * 10

Pts(n) == n * Unit

Half == Unit \div 2

Quarter == Unit \div 4

EmptyDict == [k \in {} |-> 0]

Get(d, k, default) == IF k \in DOMAIN d THEN d[k] ELSE default

None == [none |-> TRUE]

Max(a, b) == IF a >= b THEN a ELSE b

Min(a, b) == IF a <= b THEN a ELSE b

Contains(seq, x) == \E i \in 1..Len(seq) : seq[i] = x

RECURSIVE SumSeq(_)
SumSeq(s) == IF s = <<>> THEN 0 ELSE Head(s) + SumSeq(Tail(s))

-----------------------------------------------------------------------------
(* Configuration: src/config.py *)

TIER_A_THRESHOLD == 40

TIER_B_THRESHOLD == 25

TIER_C_THRESHOLD == 15

TIER_B_MIN_SCORE == 30

TIER_C_MIN_SCORE == 18

TIER_D_FLOOR == 40

PAPER_TRADE_AMOUNT_USD == 25

\* the defaults that the comments of __init__ name: thresholds 50, 30, 20 and minimum
\* scores 40 and 25
DocumentedDefaults ==
    [TIER_THRESHOLDS |-> [A |-> Pts(50), B |-> Pts(30), C |-> Pts(20), D |-> 0],
     SIGNAL_CRITERIA |-> [tier_a_always |-> TRUE, tier_b_min_score |-> Pts(40),
                          tier_c_min_score |-> Pts(25), tier_d_never |-> TRUE]]

DefaultConfig ==
    [TIER_THRESHOLDS |-> [A |-> Pts(TIER_A_THRESHOLD), B |-> Pts(TIER_B_THRESHOLD),
                          C |-> Pts(TIER_C_THRESHOLD), D |-> 0],
     SIGNAL_CRITERIA |-> [tier_a_always |-> TRUE, tier_b_min_score |-> Pts(TIER_B_MIN_SCORE),
                          tier_c_min_score |-> Pts(TIER_C_MIN_SCORE), tier_d_never |-> TRUE]]

CRITICAL_RED_FLAGS ==
    {"CRITICAL_HONEYPOT", "extreme_sell_tax", "insufficient_liquidity",
     "whale_dumping", "sentiment_crash", "safety_analysis_error"}

\* the weight tables keyed by the names of category_scores
WeightsByCategoryName ==
    [bull_market |-> [community_signals |-> 12, timing_factors |-> 13,
                      technical_foundation |-> 9],
     bear_market |-> [on_chain_health |-> 13, technical_foundation |-> 12,
                      timing_factors |-> 8],
     sideways    |-> [on_chain_health |-> 11, community_signals |-> 11,
                      market_dynamics |-> 10]]

\* weights in tenths
MARKET_CONDITION_WEIGHTS ==
    [bull_market |-> [community |-> 12, timing |-> 13, technical |-> 9],
     bear_market |-> [security |-> 13, technical |-> 12, timing |-> 8],
     sideways    |-> [security |-> 11, community |-> 11, market |-> 10]]

-----------------------------------------------------------------------------
(* A scorer body is a list of sub-checks run in order inside one try block. *)
(* Each sub-check yields its points, its flags and whether the scorer       *)
(* returns right after it.  An exception raised by sub-check number faultAt *)
(* leaves the points and flags of the earlier sub-checks in place.          *)

Check(name, pts, flags) == [name |-> name, pts |-> pts, flags |-> flags, stop |-> FALSE]

RECURSIVE RunChecks(_, _, _, _)
RunChecks(checks, i, faultAt, acc) ==
    IF i > Len(checks) THEN acc
    ELSE IF i = faultAt THEN [acc EXCEPT !.raised = TRUE]
    ELSE LET c == checks[i]
             nxt == [score  |-> acc.score + c.pts,
                     flags  |-> acc.flags \o c.flags,
                     log    |-> Append(acc.log, <<c.name, c.pts>>),
                     raised |-> FALSE]
         IN IF c.stop THEN nxt ELSE RunChecks(checks, i + 1, faultAt, nxt)

Scorer(checks, faultAt, errorFlag) ==
    LET r == RunChecks(checks, 1, faultAt,
                       [score |-> 0, flags |-> <<>>, log |-> <<>>, raised |-> FALSE])
    IN [score |-> r.score,
        flags |-> IF r.raised THEN Append(r.flags, errorFlag) ELSE r.flags,
        log   |-> r.log]

-----------------------------------------------------------------------------
(* _score_onchain_health: tax in percent, max_transaction_percentage in     *)
(* hundredths of a percent, pool size in USD.                               *)

HoneypotCheckNoReturn(td) ==
    LET honeypot_status == Get(td, "honeypot_check", EmptyDict)
        is_honeypot == Get(honeypot_status, "is_honeypot", TRUE)
        can_sell == Get(honeypot_status, "can_sell", FALSE)
    IN IF ~is_honeypot /\ can_sell THEN Check("honeypot", Pts(8), <<>>)
       ELSE IF can_sell THEN Check("honeypot", Pts(5), <<>>)
       ELSE Check("honeypot", 0, <<"CRITICAL_HONEYPOT">>)

HoneypotCheck(td) ==
    LET honeypot_status == Get(td, "honeypot_check", EmptyDict)
        is_honeypot == Get(honeypot_status, "is_honeypot", TRUE)
        can_sell == Get(honeypot_status, "can_sell", FALSE)
    IN IF ~is_honeypot /\ can_sell THEN Check("honeypot", Pts(8), <<>>)
       ELSE IF can_sell THEN Check("honeypot", Pts(5), <<>>)
       ELSE [Check("honeypot", 0, <<"CRITICAL_HONEYPOT">>) EXCEPT !.stop = TRUE]

TaxCheck(td) ==
    LET buy_tax == Get(td, "buy_tax_percentage", 0)
        sell_tax == Get(td, "sell_tax_percentage", 0)
    IN IF buy_tax <= 5 /\ sell_tax <= 10 THEN Check("tax", Pts(4), <<>>)
       ELSE IF buy_tax <= 10 /\ sell_tax <= 20 THEN Check("tax", Pts(2), <<>>)
       ELSE IF sell_tax > 30 THEN Check("tax", 0, <<"extreme_sell_tax">>)
       ELSE Check("tax", 0, <<>>)

TxLimitCheck(td) ==
    LET max_tx_amount == Get(td, "max_transaction_percentage", 10000)
    IN IF max_tx_amount >= 100 THEN Check("tx_limit", Pts(2), <<>>)
       ELSE IF max_tx_amount < 10 THEN Check("tx_limit", 0, <<"restrictive_tx_limits">>)
       ELSE Check("tx_limit", 0, <<>>)

PauseCheck(td) ==
    IF ~Get(td, "has_pause_function", FALSE) THEN Check("pause", Pts(1), <<>>)
    ELSE Check("pause", 0, <<"has_pause_risk">>)

PoolCheck(td) ==
    LET pool_size == Get(Get(td, "liquidity", EmptyDict), "usd", 0)
    IN IF pool_size >= 20000 THEN Check("pool", Pts(3), <<>>)
       ELSE IF pool_size >= 5000 THEN Check("pool", Pts(2), <<>>)
       ELSE IF pool_size >= 1000 THEN Check("pool", Pts(1), <<>>)
       ELSE Check("pool", 0, <<"insufficient_liquidity">>)

LockCheck(td) ==
    IF Get(Get(td, "liquidity", EmptyDict), "locked", FALSE) THEN Check("lock", Pts(2), <<>>)
    ELSE Check("lock", 0, <<"unlocked_liquidity">>)

OwnershipCheck(td) ==
    LET ownership == Get(Get(td, "contract", EmptyDict), "ownership", "unknown")
    IN IF ownership = "renounced" THEN Check("ownership", Pts(3), <<>>)
       ELSE IF ownership = "multisig" THEN Check("ownership", Pts(1), <<>>)
       ELSE Check("ownership", 0, <<"centralized_control">>)

MintCheck(td) ==
    IF ~Get(Get(td, "contract", EmptyDict), "can_mint", TRUE) THEN Check("mint", Pts(2), <<>>)
    ELSE Check("mint", 0, <<"unlimited_minting">>)

_score_onchain_health(td, faultAt) ==
    Scorer(<<HoneypotCheck(td), TaxCheck(td), TxLimitCheck(td), PauseCheck(td),
             PoolCheck(td), LockCheck(td), OwnershipCheck(td), MintCheck(td)>>,
           faultAt, "safety_analysis_error")

-----------------------------------------------------------------------------
(* _score_market_dynamics: volumes, market cap and liquidity in USD, price  *)
(* changes, slippage and growth in percent.                                 *)

VolumeSurgeCheck(td) ==
    LET volume_24h == Get(td, "volume_24h_usd", 0)
        volume_1h == Get(td, "volume_1h_usd", 0)
        volume_5m == Get(td, "volume_5m_usd", 0)
    IN IF volume_5m > 0 /\ volume_1h > 0
       THEN \* five_min_acceleration = (volume_5m * 12) / volume_1h
            IF volume_5m * 12 > 10 * volume_1h THEN Check("volume_surge", Pts(8), <<>>)
            ELSE IF volume_5m * 12 > 5 * volume_1h THEN Check("volume_surge", Pts(6), <<>>)
            ELSE IF volume_5m * 12 > 3 * volume_1h THEN Check("volume_surge", Pts(4), <<>>)
            ELSE Check("volume_surge", 0, <<>>)
       ELSE IF volume_1h > 0 /\ volume_24h > 0
       THEN \* hourly_acceleration = (volume_1h * 24) / volume_24h
            IF volume_1h * 24 > 15 * volume_24h THEN Check("volume_surge", Pts(6), <<>>)
            ELSE IF volume_1h * 24 > 8 * volume_24h THEN Check("volume_surge", Pts(4), <<>>)
            ELSE IF volume_1h * 24 > 3 * volume_24h THEN Check("volume_surge", Pts(2), <<>>)
            ELSE Check("volume_surge", 0, <<"weak_volume_surge">>)
       ELSE Check("volume_surge", 0, <<>>)

VolumeIntensityCheck(td) ==
    LET volume_24h == Get(td, "volume_24h_usd", 0)
        market_cap == Get(td, "market_cap_usd", 1)
    IN IF market_cap > 0
       THEN \* volume_intensity = volume_24h / market_cap against 1.2, 0.7, 0.3, 0.1
            IF 10 * volume_24h > 12 * market_cap THEN Check("volume_intensity", Pts(4), <<>>)
            ELSE IF 10 * volume_24h > 7 * market_cap THEN Check("volume_intensity", Pts(2), <<>>)
            ELSE IF 10 * volume_24h > 3 * market_cap THEN Check("volume_intensity", Pts(1), <<>>)
            ELSE IF 10 * volume_24h < market_cap THEN Check("volume_intensity", 0, <<"dead_volume">>)
            ELSE Check("volume_intensity", 0, <<>>)
       ELSE Check("volume_intensity", 0, <<>>)

PriceMomentumCheck(td) ==
    Check("price_momentum",
          (IF Get(td, "price_change_5m", 0) > 10 THEN Pts(2) ELSE 0)
          + (IF Get(td, "price_change_15m", 0) > 20 THEN Pts(1) ELSE 0)
          + (IF Get(td, "price_change_1h", 0) > 30 THEN Pts(1) ELSE 0),
          <<>>)

WhaleCheck(td) ==
    LET whale_data == Get(td, "whale_activity", EmptyDict)
        large_buys_1h == Get(whale_data, "large_buys_1h", 0)
        large_sells_1h == Get(whale_data, "large_sells_1h", 0)
    IN Check("whale",
             (IF large_buys_1h > large_sells_1h * 2 THEN Pts(2) ELSE 0)
             + (IF Get(whale_data, "new_large_holders_1h", 0) > 1 THEN Pts(1) ELSE 0),
             <<>>)

SlippageCheck(td) ==
    LET liquidity == Get(td, "liquidity_usd", 0)
        slippage_5k == Get(td, "slippage_5k_usd", 100)
    IN IF liquidity > 30000 /\ slippage_5k < 15 THEN Check("slippage", Pts(2), <<>>)
       ELSE IF liquidity > 7000 /\ slippage_5k < 35 THEN Check("slippage", Pts(1), <<>>)
       ELSE IF liquidity < 7000 \/ slippage_5k > 35 THEN Check("slippage", 0, <<"high_slippage">>)
       ELSE Check("slippage", 0, <<>>)

LiquidityGrowthCheck(td) ==
    IF Get(td, "liquidity_growth_1h", 0) > 50 THEN Check("liquidity_growth", Pts(1), <<>>)
    ELSE Check("liquidity_growth", 0, <<>>)

_score_market_dynamics(td, faultAt) ==
    Scorer(<<VolumeSurgeCheck(td), VolumeIntensityCheck(td), PriceMomentumCheck(td),
             WhaleCheck(td), SlippageCheck(td), LiquidityGrowthCheck(td)>>,
           faultAt, "market_analysis_error")

-----------------------------------------------------------------------------
(* _score_community_signals: counts per hour; sentiment momentum in         *)
(* hundredths.                                                              *)

Ladder(name, x, steps) ==
    \* steps: <<threshold, points>> pairs, highest first; the first threshold x exceeds wins
    LET hit == {i \in 1..Len(steps) : x > steps[i][1]}
    IN IF hit = {} THEN Check(name, 0, <<>>)
       ELSE Check(name, Pts(steps[CHOOSE i \in hit : \A j \in hit : i <= j][2]), <<>>)

TwitterMentionsCheck(social) ==
    Ladder("twitter_mentions", Get(social, "twitter_mentions_1h", 0),
           <<<<500, 7>>, <<300, 6>>, <<150, 5>>, <<75, 4>>, <<30, 3>>, <<10, 2>>, <<0, 1>>>>)

TwitterEngagementCheck(social) ==
    Ladder("twitter_engagement", Get(social, "twitter_engagement_1h", 0),
           <<<<5000, 4>>, <<2500, 3>>, <<1000, 2>>, <<300, 1>>>>)

RedditCheck(social) ==
    Ladder("reddit", Get(social, "reddit_mentions_1h", 0), <<<<20, 2>>, <<5, 1>>>>)

TelegramCheck(social) ==
    Ladder("telegram", Get(social, "telegram_activity_1h", 0), <<<<200, 2>>, <<50, 1>>>>)

InfluencerCheck(social) ==
    LET influencer_mentions == Get(social, "influencer_mentions_24h", 0)
        influencer_quality == Get(social, "influencer_quality", "none")
    IN IF influencer_quality = "major" /\ influencer_mentions > 0
       THEN Check("influencer", Pts(2), <<>>)
       ELSE IF influencer_mentions > 0 THEN Check("influencer", Pts(1), <<>>)
       ELSE Check("influencer", 0, <<>>)

MemeViralCheck(social) ==
    LET meme_viral_score == Get(social, "meme_viral_score", 0)
    IN IF meme_viral_score >= 8 THEN Check("meme_viral", Pts(2), <<>>)
       ELSE IF meme_viral_score >= 5 THEN Check("meme_viral", Pts(1), <<>>)
       ELSE Check("meme_viral", 0, <<>>)

HashtagCheck(social) ==
    Ladder("hashtags", Get(social, "trending_hashtag_count", 0), <<<<0, 1>>>>)

SentimentCheck(social) ==
    Ladder("sentiment", Get(social, "sentiment_momentum_1h", 0), <<<<10, 1>>>>)

GrowthPatternCheck(social) ==
    LET growth_pattern == Get(social, "growth_pattern", "unknown")
    IN IF growth_pattern = "viral" THEN Check("growth_pattern", Pts(1), <<>>)
       ELSE IF growth_pattern = "artificial"
       THEN Check("growth_pattern", 0, <<"artificial_social_growth">>)
       ELSE Check("growth_pattern", 0, <<>>)

_score_community_signals(td, faultAt) ==
    LET social_data == Get(td, "social", EmptyDict)
    IN Scorer(<<TwitterMentionsCheck(social_data), TwitterEngagementCheck(social_data),
                RedditCheck(social_data), TelegramCheck(social_data),
                InfluencerCheck(social_data), MemeViralCheck(social_data),
                HashtagCheck(social_data), SentimentCheck(social_data),
                GrowthPatternCheck(social_data)>>,
              faultAt, "social_analysis_error")

-----------------------------------------------------------------------------
(* _score_technical_foundation: timestamps in seconds since the epoch.      *)

AgeCheck(td, now) ==
    LET creation_time == Get(td, "created_timestamp", 0)
        age == now - creation_time      \* seconds; age_hours = age / 3600
    IN IF creation_time > 0
       THEN IF age < 3600 THEN Check("age", Pts(4), <<>>)
            ELSE IF age < 6 * 3600 THEN Check("age", Pts(3), <<>>)
            ELSE IF age < 24 * 3600 THEN Check("age", Pts(2), <<>>)
            ELSE IF age < 7 * 24 * 3600 THEN Check("age", Pts(1), <<>>)
            ELSE IF age > 30 * 24 * 3600 THEN Check("age", 0, <<"old_token">>)
            ELSE Check("age", 0, <<>>)
       ELSE Check("age", 0, <<>>)

ListingCheck(td) ==
    LET listing_data == Get(td, "listings", EmptyDict)
        major_cex_listed == Get(listing_data, "major_cex", FALSE)
        small_cex_listed == Get(listing_data, "small_cex", FALSE)
    IN IF ~major_cex_listed /\ ~small_cex_listed THEN Check("listing", Pts(3), <<>>)
       ELSE IF small_cex_listed /\ ~major_cex_listed THEN Check("listing", Pts(1), <<>>)
       ELSE Check("listing", 0, <<"already_mainstream">>)

CoverageCheck(td) ==
    LET influencer_coverage == Get(td, "influencer_coverage", "none")
    IN IF influencer_coverage = "none" THEN Check("coverage", Pts(1), <<>>)
       ELSE IF influencer_coverage = "emerging" THEN Check("coverage", Half, <<>>)
       ELSE Check("coverage", 0, <<>>)

MarketCapCheck(td) ==
    LET market_cap == Get(td, "market_cap_usd", 0)
    IN IF 1000 <= market_cap /\ market_cap <= 100000 THEN Check("market_cap", Pts(3), <<>>)
       ELSE IF 100000 <= market_cap /\ market_cap <= 1000000 THEN Check("market_cap", Pts(2), <<>>)
       ELSE IF 1000000 <= market_cap /\ market_cap <= 10000000 THEN Check("market_cap", Pts(1), <<>>)
       ELSE IF market_cap > 50000000 THEN Check("market_cap", 0, <<"high_market_cap">>)
       ELSE Check("market_cap", 0, <<>>)

HolderCheck(td) ==
    LET holder_count == Get(td, "holder_count", 999999)
    IN IF holder_count < 100 THEN Check("holders", Pts(1), <<>>)
       ELSE IF holder_count > 10000 THEN Check("holders", 0, <<"saturated_holders">>)
       ELSE Check("holders", 0, <<>>)

MomentumCheck(td) ==
    Check("momentum",
          (IF Get(td, "activity_surge_24h", FALSE) THEN Pts(2) ELSE 0)
          + (IF Get(td, "smart_money_wallets", 0) > 3 THEN Pts(1) ELSE 0),
          <<>>)

DevActivityCheck(td) ==
    LET dev_activity == Get(Get(td, "project", EmptyDict), "development_activity", EmptyDict)
    IN IF Get(dev_activity, "github_commits", "") = "active"
          \/ Get(dev_activity, "regular_updates", FALSE)
       THEN Check("dev_activity", Pts(1), <<>>)
       ELSE Check("dev_activity", 0, <<>>)

ProjectCheck(td) ==
    LET project_info == Get(td, "project", EmptyDict)
        website == Get(project_info, "website_quality", "")
    IN Check("project",
             (IF website = "professional" THEN Pts(2) ELSE IF website = "basic" THEN Pts(1) ELSE 0)
             + (IF Get(project_info, "documentation_quality", "") \in {"basic", "clear", "detailed"}
                THEN Pts(2) ELSE 0)
             + (IF Get(project_info, "team_public", FALSE) THEN Pts(1) ELSE 0)
             + (IF Get(project_info, "has_partnerships", FALSE) THEN Pts(1) ELSE 0)
             + (IF Get(project_info, "utility", "") \notin {"", "none", "planned"}
                THEN Half ELSE 0),
             <<>>)

TransparencyCheck(td) ==
    LET project_info == Get(td, "project", EmptyDict)
        no_website == Get(project_info, "website_quality", "") = ""
        no_docs == Get(project_info, "documentation_quality", "") = ""
        no_roadmap == Get(project_info, "roadmap_quality", "") = ""
    IN Check("transparency",
             (IF no_website THEN -Quarter ELSE 0) + (IF no_docs THEN -Quarter ELSE 0)
             + (IF no_roadmap THEN -Quarter ELSE 0),
             (IF no_website THEN <<"no_website">> ELSE <<>>)
             \o (IF no_docs THEN <<"no_docs">> ELSE <<>>)
             \o (IF no_roadmap THEN <<"no_roadmap">> ELSE <<>>))

_score_technical_foundation(td, now, faultAt) ==
    Scorer(<<AgeCheck(td, now), ListingCheck(td), CoverageCheck(td), MarketCapCheck(td),
             HolderCheck(td), MomentumCheck(td), DevActivityCheck(td), ProjectCheck(td),
             TransparencyCheck(td)>>,
           faultAt, "timing_analysis_error")

-----------------------------------------------------------------------------
(* _score_timing_factors: reads the wall clock (datetime.utcnow()).         *)

Truthy(d) == d # None /\ d # EmptyDict

HourUtc(now) == (now \div 3600) % 24

\* datetime.weekday(): Monday = 0; 1970-01-01 was a Thursday
Weekday(now) == ((now \div 86400) + 3) % 7

ContextCheck(ctx) ==
    IF Truthy(ctx)
    THEN LET solana_performance == Get(ctx, "solana_24h_change", 0)
             meme_sector_momentum == Get(ctx, "meme_sector_24h", 0)
             market_greed == Get(ctx, "fear_greed_index", 50)
         IN Check("context",
                  (IF solana_performance > 5 THEN Pts(2)
                   ELSE IF solana_performance > 0 THEN Pts(1) ELSE 0)
                  + (IF meme_sector_momentum > 20 THEN Pts(2)
                     ELSE IF meme_sector_momentum > 0 THEN Pts(1) ELSE 0)
                  + (IF market_greed > 70 THEN Pts(1) ELSE 0),
                  IF solana_performance < -10
                  THEN <<"solana_dumping">> ELSE <<>>)
    ELSE Check("context", 0, <<>>)

HourCheck(now) ==
    LET current_hour_utc == HourUtc(now)
    IN IF 12 <= current_hour_utc /\ current_hour_utc <= 20 THEN Check("hour", Pts(1), <<>>)
       ELSE IF (8 <= current_hour_utc /\ current_hour_utc <= 12)
               \/ (20 <= current_hour_utc /\ current_hour_utc <= 24)
       THEN Check("hour", Half, <<>>)
       ELSE Check("hour", 0, <<>>)

WeekendCheck(now) ==
    IF Weekday(now) >= 5 THEN Check("weekend", Pts(1), <<>>) ELSE Check("weekend", 0, <<>>)

LaunchesCheck(td) ==
    LET recent_major_launches == Get(td, "recent_major_launches_24h", 0)
    IN IF recent_major_launches = 0 THEN Check("launches", Pts(2), <<>>)
       ELSE IF recent_major_launches > 3 THEN Check("launches", 0, <<"crowded_launch_day">>)
       ELSE Check("launches", 0, <<>>)

TrendingCheck(td) ==
    LET trending_peak == Get(td, "trending_momentum", "none")
    IN IF trending_peak = "building" THEN Check("trending", Pts(1), <<>>)
       ELSE IF trending_peak = "peak" THEN Check("trending", Half, <<>>)
       ELSE IF trending_peak = "fading" THEN Check("trending", 0, <<"momentum_fading">>)
       ELSE Check("trending", 0, <<>>)

_score_timing_factors(td, ctx, now, faultAt) ==
    Scorer(<<ContextCheck(ctx), HourCheck(now), WeekendCheck(now), LaunchesCheck(td),
             TrendingCheck(td)>>,
           faultAt, "timing_analysis_error")

-----------------------------------------------------------------------------
(* _score_risk_factors: returns the deduction as a positive number.          *)

SocialPresenceRisk(existing_flags) ==
    IF Contains(existing_flags, "weak_social_presence") \/ Contains(existing_flags, "small_community")
    THEN Check("social_presence", Pts(3), <<"minimal_social_presence">>)
    ELSE Check("social_presence", 0, <<>>)

MarketingRisk(td) ==
    IF Get(Get(td, "marketing_analysis", EmptyDict), "excessive_claims", FALSE)
    THEN Check("marketing", Pts(2), <<"excessive_marketing">>)
    ELSE Check("marketing", 0, <<>>)

CopycatRisk(td) ==
    IF Get(td, "is_copycat", FALSE) THEN Check("copycat", Pts(2), <<"copycat_project">>)
    ELSE Check("copycat", 0, <<>>)

WhaleRisk(td) ==
    IF Get(Get(td, "whale_activity", EmptyDict), "suspicious_movements", FALSE)
    THEN Check("whale_risk", Pts(2), <<"suspicious_whale_activity">>)
    ELSE Check("whale_risk", 0, <<>>)

EngagementRisk(td) ==
    IF Get(td, "engagement_score", 50) < 20 THEN Check("engagement", Pts(1), <<"poor_engagement">>)
    ELSE Check("engagement", 0, <<>>)

_score_risk_factors(td, existing_flags, faultAt) ==
    Scorer(<<SocialPresenceRisk(existing_flags), MarketingRisk(td), CopycatRisk(td),
             WhaleRisk(td), EngagementRisk(td)>>,
           faultAt, "risk_assessment_error")

-----------------------------------------------------------------------------
(* Aggregation *)

ClampFromBelowOnly(x) == Max(0, x)

\* max(0, min(100, x))
Clamp(x) == Max(0, Min(Pts(100), x))

RECURSIVE SumOver(_, _)
SumOver(keys, f) ==
    IF keys = {} THEN 0
    ELSE LET k == CHOOSE x \in keys : TRUE IN f[k] + SumOver(keys \ {k}, f)

\* total_score = sum(scores.values()) - scores['risk_deductions']
BaseTotal(scores) == Clamp(SumOver(DOMAIN scores, scores) - scores.risk_deductions)

\* an adjustment that adds the weighted contribution without taking the contribution off
MarketAdjustmentsAddWeighted(base_score, category_scores, ctx, fault) ==
    IF fault THEN base_score
    ELSE LET market_condition == Get(ctx, "condition", "sideways")
             weights == Get(MARKET_CONDITION_WEIGHTS, market_condition, EmptyDict)
             both == DOMAIN weights \cap DOMAIN category_scores
             adjustment == [c \in both |-> (category_scores[c] * weights[c]) \div 10]
         IN Clamp(base_score + SumOver(both, adjustment))

_apply_market_adjustments(base_score, category_scores, ctx, fault) ==
    IF fault THEN base_score
    ELSE LET market_condition == Get(ctx, "condition", "sideways")
             weights == Get(MARKET_CONDITION_WEIGHTS, market_condition, EmptyDict)
             both == DOMAIN weights \cap DOMAIN category_scores
             adjustment == [c \in both |->
                               (category_scores[c] * weights[c]) \div 10 - category_scores[c]]
         IN Clamp(base_score + SumOver(both, adjustment))

DetermineTierStrict(score, cfg) ==
    IF score > cfg.TIER_THRESHOLDS.A THEN "A"
    ELSE IF score > cfg.TIER_THRESHOLDS.B THEN "B"
    ELSE IF score > cfg.TIER_THRESHOLDS.C THEN "C"
    ELSE "D"

_determine_tier(score, cfg) ==
    IF score >= cfg.TIER_THRESHOLDS.A THEN "A"
    ELSE IF score >= cfg.TIER_THRESHOLDS.B THEN "B"
    ELSE IF score >= cfg.TIER_THRESHOLDS.C THEN "C"
    ELSE "D"

_generate_recommendation(tier) ==
    CASE tier = "A" -> "MEME PUMP ALERT"
      [] tier = "B" -> "STRONG BUY"
      [] tier = "C" -> "WATCH CLOSELY"
      [] OTHER -> "AVOID"

CriticalFlags(red_flags) == SelectSeq(red_flags, LAMBDA f : f \in CRITICAL_RED_FLAGS)

_assess_risk_level(score, red_flags) ==
    IF Len(CriticalFlags(red_flags)) > 0 THEN "CRITICAL"
    ELSE IF score < Pts(30) \/ Len(red_flags) > 5 THEN "HIGH"
    ELSE IF score < Pts(60) \/ Len(red_flags) > 2 THEN "MEDIUM"
    ELSE "LOW"

ScoringResult(total_score, tier, category_scores, red_flags, recommendation, risk_level) ==
    [cls |-> "ScoringResult", total_score |-> total_score, tier |-> tier,
     category_scores |-> category_scores, red_flags |-> red_flags,
     recommendation |-> recommendation, risk_level |-> risk_level]

NoFaults ==
    [on_chain_health |-> 0, market_dynamics |-> 0, community_signals |-> 0,
     technical_foundation |-> 0, timing_factors |-> 0, risk_deductions |-> 0,
     adjustments |-> FALSE, outer |-> FALSE]

\* the return for a critical flag with the tier of the categories' sum
CriticalResultKeepsTier(scores, red_flags) ==
    ScoringResult(0, _determine_tier(BaseTotal(scores), DefaultConfig), scores, red_flags,
                  "AVOID - Critical red flags detected", "CRITICAL")

\* lines 222-231: the return taken when a critical flag was raised
CriticalResultKeepsScore(scores, red_flags) ==
    ScoringResult(BaseTotal(scores), "D", scores, red_flags,
                  "AVOID - Critical red flags detected", "CRITICAL")

CriticalResult(scores, red_flags) ==
    ScoringResult(0, "D", scores, red_flags, "AVOID - Critical red flags detected", "CRITICAL")

\* lines 256-266: the return of the outer except
ErrorResult ==
    ScoringResult(0, "D", EmptyDict, <<"scoring_error">>, "AVOID - Scoring error", "CRITICAL")

\* The locals of comprehensive_score at its return: path is the return statement taken,
\* base_score the total before the market adjustment (0 where it was not computed).
comprehensive_score(td, ctx, now, flt, cfg) ==
    LET health == _score_onchain_health(td, flt.on_chain_health)
        market == _score_market_dynamics(td, flt.market_dynamics)
        community == _score_community_signals(td, flt.community_signals)
        tech == _score_technical_foundation(td, now, flt.technical_foundation)
        timing == _score_timing_factors(td, ctx, now, flt.timing_factors)
        flags5 == health.flags \o market.flags \o community.flags \o tech.flags \o timing.flags
        risk == _score_risk_factors(td, flags5, flt.risk_deductions)
        scores == [on_chain_health |-> health.score, market_dynamics |-> market.score,
                   community_signals |-> community.score, technical_foundation |-> tech.score,
                   timing_factors |-> timing.score, risk_deductions |-> risk.score]
        red_flags == flags5 \o risk.flags
        base == BaseTotal(scores)
        total_score == IF Truthy(ctx)
                       THEN _apply_market_adjustments(base, scores, ctx, flt.adjustments)
                       ELSE base
        tier == _determine_tier(total_score, cfg)
        locals == [health |-> health, scores |-> scores, red_flags |-> red_flags]
    IN IF flt.outer
       THEN locals @@ [path |-> "error", base_score |-> 0, result |-> ErrorResult]
       ELSE IF CriticalFlags(red_flags) # <<>>
       THEN locals @@ [path |-> "critical", base_score |-> 0,
                       result |-> CriticalResult(scores, red_flags)]
       ELSE locals @@ [path |-> "normal", base_score |-> base,
                       result |-> ScoringResult(total_score, tier, scores, red_flags,
                                                _generate_recommendation(tier),
                                                _assess_risk_level(total_score, red_flags))]

-----------------------------------------------------------------------------
(* Signal policy.  A score result reaches these predicates either as a      *)
(* ScoringResult object (a record with field cls) or as the dict built by   *)
(* to_dict, where the total is stored under 'comprehensive_score'.          *)

to_dict(r) ==
    [comprehensive_score |-> r.total_score, tier |-> r.tier,
     category_scores |-> r.category_scores, red_flags |-> r.red_flags,
     recommendation |-> r.recommendation, risk_level |-> r.risk_level]

Falsy(r) == r = None \/ r = EmptyDict

HasAttr(r, name) == "cls" \in DOMAIN r /\ name \in DOMAIN r

NoTier == "<None>"

\* the dict branch reading the total under the object's attribute name
SpeculativeCandidateWrongKey(r) ==
    IF Falsy(r) THEN FALSE
    ELSE LET tier == IF HasAttr(r, "tier") THEN r.tier ELSE Get(r, "tier", NoTier)
             category_scores == Get(r, "category_scores", EmptyDict)
             market == Get(category_scores, "market_dynamics", 0)
             social == Get(category_scores, "community_signals", 0)
             risk_level == Get(r, "risk_level", "HIGH")
             total_score == Get(r, "total_score", 0)
         IN IF tier = NoTier THEN FALSE
            ELSE IF tier \in {"A", "B"} THEN FALSE
            ELSE IF risk_level = "CRITICAL" THEN FALSE
            ELSE (market >= Pts(12) \/ social >= Pts(12)) /\ total_score >= Pts(18)

is_speculative_candidate(r) ==
    IF Falsy(r) THEN FALSE
    ELSE LET obj == HasAttr(r, "tier")
             tier == IF obj THEN r.tier ELSE Get(r, "tier", NoTier)
             category_scores == Get(r, "category_scores", EmptyDict)
             market == Get(category_scores, "market_dynamics", 0)
             social == Get(category_scores, "community_signals", 0)
             risk_level == Get(r, "risk_level", "HIGH")
             total_score == IF obj THEN Get(r, "total_score", 0)
                            ELSE Get(r, "comprehensive_score", 0)
         IN IF tier = NoTier THEN FALSE
            ELSE IF tier \in {"A", "B"} THEN FALSE
            ELSE IF risk_level = "CRITICAL" THEN FALSE
            ELSE (market >= Pts(12) \/ social >= Pts(12)) /\ total_score >= Pts(18)

\* the range test without its lower end
WatchlistCandidateNoLowerEnd(r, cfg) ==
    IF Falsy(r) THEN FALSE
    ELSE LET obj == HasAttr(r, "tier")
             tier == IF obj THEN r.tier ELSE Get(r, "tier", "D")
             total_score == IF obj THEN r.total_score ELSE Get(r, "comprehensive_score", 0)
             tier_c == cfg.TIER_THRESHOLDS.C
         IN IF tier \in {"A", "B", "C"} THEN FALSE
            ELSE total_score < tier_c

is_watchlist_candidate(r, cfg) ==
    IF Falsy(r) THEN FALSE
    ELSE LET obj == HasAttr(r, "tier")
             tier == IF obj THEN r.tier ELSE Get(r, "tier", "D")
             total_score == IF obj THEN r.total_score ELSE Get(r, "comprehensive_score", 0)
             tier_c == cfg.TIER_THRESHOLDS.C
         IN IF tier \in {"A", "B", "C"} THEN FALSE
            ELSE tier_c - Pts(5) <= total_score /\ total_score < tier_c

\* the tier-B rule with a strict comparison
ShouldSendSignalStrictB(r, speculative_mode, cfg) ==
    IF Falsy(r) THEN FALSE
    ELSE LET obj == HasAttr(r, "total_score")
             score == IF obj THEN r.total_score ELSE Get(r, "comprehensive_score", 0)
             tier == IF obj THEN r.tier ELSE Get(r, "tier", "D")
             criteria == cfg.SIGNAL_CRITERIA
         IN IF tier = "A" /\ criteria.tier_a_always THEN TRUE
            ELSE IF tier = "B" /\ score > criteria.tier_b_min_score THEN TRUE
            ELSE IF tier = "C" /\ score >= criteria.tier_c_min_score THEN TRUE
            ELSE IF speculative_mode /\ is_speculative_candidate(r) THEN TRUE
            ELSE IF tier = "D" /\ ~criteria.tier_d_never THEN score >= Pts(TIER_D_FLOOR)
            ELSE FALSE

should_send_signal_comprehensive(r, speculative_mode, cfg) ==
    IF Falsy(r) THEN FALSE
    ELSE LET obj == HasAttr(r, "total_score")
             score == IF obj THEN r.total_score ELSE Get(r, "comprehensive_score", 0)
             tier == IF obj THEN r.tier ELSE Get(r, "tier", "D")
             criteria == cfg.SIGNAL_CRITERIA
         IN IF tier = "A" /\ criteria.tier_a_always THEN TRUE
            ELSE IF tier = "B" /\ score >= criteria.tier_b_min_score THEN TRUE
            ELSE IF tier = "C" /\ score >= criteria.tier_c_min_score THEN TRUE
            ELSE IF speculative_mode /\ is_speculative_candidate(r) THEN TRUE
            ELSE IF tier = "D" /\ ~criteria.tier_d_never THEN score >= Pts(TIER_D_FLOOR)
            ELSE FALSE

-----------------------------------------------------------------------------
(* Inputs of the evaluations that are explored.  A snapshot is put together *)
(* from one option per group of fields; an option that is EmptyDict leaves  *)
(* the group's fields out, so the scorers fall back on their defaults.      *)

HoneypotOptions ==
    {EmptyDict,
     [honeypot_check |-> [is_honeypot |-> FALSE, can_sell |-> TRUE]],
     [honeypot_check |-> [is_honeypot |-> TRUE, can_sell |-> TRUE]],
     [honeypot_check |-> [is_honeypot |-> FALSE, can_sell |-> FALSE]],
     [honeypot_check |-> [is_honeypot |-> FALSE]]}

SafetyOptions ==
    {EmptyDict,
     [buy_tax_percentage |-> 0, sell_tax_percentage |-> 5, max_transaction_percentage |-> 10000,
      has_pause_function |-> FALSE, liquidity |-> [usd |-> 20000, locked |-> TRUE],
      contract |-> [ownership |-> "renounced", can_mint |-> FALSE]],
     [buy_tax_percentage |-> 8, sell_tax_percentage |-> 15, max_transaction_percentage |-> 50,
      has_pause_function |-> TRUE, liquidity |-> [usd |-> 1000, locked |-> FALSE],
      contract |-> [ownership |-> "multisig", can_mint |-> TRUE]],
     [buy_tax_percentage |-> 50, sell_tax_percentage |-> 25, max_transaction_percentage |-> 5,
      has_pause_function |-> TRUE, liquidity |-> [usd |-> 1000, locked |-> FALSE]],
     [buy_tax_percentage |-> 12, sell_tax_percentage |-> 35,
      liquidity |-> [usd |-> 5000, locked |-> TRUE]]}

MarketOptions ==
    {EmptyDict,
     [volume_24h_usd |-> 20000, volume_1h_usd |-> 1000, volume_5m_usd |-> 1000,
      market_cap_usd |-> 10000, price_change_5m |-> 11, price_change_15m |-> 21,
      price_change_1h |-> 31,
      whale_activity |-> [large_buys_1h |-> 5, large_sells_1h |-> 1, new_large_holders_1h |-> 2],
      liquidity_usd |-> 40000, slippage_5k_usd |-> 10, liquidity_growth_1h |-> 60],
     [volume_24h_usd |-> 2000, volume_1h_usd |-> 1000, market_cap_usd |-> 2000000,
      price_change_5m |-> 11,
      whale_activity |-> [large_buys_1h |-> 3, large_sells_1h |-> 1, suspicious_movements |-> TRUE],
      liquidity_usd |-> 8000, slippage_5k_usd |-> 20]}

SocialOptions ==
    {EmptyDict,
     [social |-> [twitter_mentions_1h |-> 501, twitter_engagement_1h |-> 5001,
                  reddit_mentions_1h |-> 21, telegram_activity_1h |-> 201,
                  influencer_mentions_24h |-> 1, influencer_quality |-> "major",
                  meme_viral_score |-> 8, trending_hashtag_count |-> 1,
                  sentiment_momentum_1h |-> 11, growth_pattern |-> "viral"]],
     [social |-> [twitter_mentions_1h |-> 160, twitter_engagement_1h |-> 2600,
                  reddit_mentions_1h |-> 21, telegram_activity_1h |-> 201,
                  growth_pattern |-> "artificial"]]}

\* created_timestamp: 2025-11-08 12:30 UTC, 2025-11-05 02:30 UTC, 2025-09-01 00:00 UTC
TechOptions ==
    {EmptyDict,
     [created_timestamp |-> 1762605000, holder_count |-> 50, activity_surge_24h |-> TRUE,
      smart_money_wallets |-> 5,
      project |-> [development_activity |-> [github_commits |-> "active"],
                   website_quality |-> "professional", documentation_quality |-> "clear",
                   roadmap_quality |-> "clear", team_public |-> TRUE,
                   has_partnerships |-> TRUE, utility |-> "staking"]],
     [created_timestamp |-> 1762309800, influencer_coverage |-> "emerging",
      listings |-> [small_cex |-> TRUE], project |-> [website_quality |-> "basic"]],
     [created_timestamp |-> 1756684800, influencer_coverage |-> "major",
      listings |-> [major_cex |-> TRUE], holder_count |-> 20000]}

TimingOptions ==
    {EmptyDict,
     [trending_momentum |-> "building"],
     [recent_major_launches_24h |-> 4, trending_momentum |-> "fading"]}

RiskOptions ==
    {EmptyDict,
     [is_copycat |-> TRUE, engagement_score |-> 10,
      marketing_analysis |-> [excessive_claims |-> TRUE]]}

Snapshots ==
    {h @@ s @@ m @@ c @@ t @@ ti @@ r :
        h \in HoneypotOptions, s \in SafetyOptions, m \in MarketOptions, c \in SocialOptions,
        t \in TechOptions, ti \in TimingOptions, r \in RiskOptions}

\* MemeBot._get_market_context
_get_market_context ==
    [crypto_sentiment |-> "neutral", meme_cycle_position |-> "mid",
     positive_catalysts |-> FALSE, condition |-> "sideways"]

Contexts ==
    {None, _get_market_context,
     [condition |-> "bull_market", solana_24h_change |-> 6, meme_sector_24h |-> 25,
      fear_greed_index |-> 80]}

\* 2025-11-05 03:00 UTC (Wednesday), 2025-11-05 13:00 UTC, 2025-11-08 13:00 UTC (Saturday)
Clocks == {1762311600, 1762347600, 1762606800}

FaultOptions ==
    {[NoFaults EXCEPT !.on_chain_health = 1], [NoFaults EXCEPT !.on_chain_health = 3],
     [NoFaults EXCEPT !.market_dynamics = 2], [NoFaults EXCEPT !.technical_foundation = 4],
     [NoFaults EXCEPT !.adjustments = TRUE], [NoFaults EXCEPT !.outer = TRUE]}

\* the snapshots that are also evaluated with a fault
FaultedSnapshots ==
    {h @@ s @@ m : h \in HoneypotOptions, s \in SafetyOptions, m \in MarketOptions}

Configs ==
    {DefaultConfig,
     [DefaultConfig EXCEPT !.TIER_THRESHOLDS = [A |-> Pts(50), B |-> Pts(30), C |-> Pts(20), D |-> 0],
                           !.SIGNAL_CRITERIA.tier_b_min_score = Pts(40),
                           !.SIGNAL_CRITERIA.tier_c_min_score = Pts(25)],
     [DefaultConfig EXCEPT !.SIGNAL_CRITERIA.tier_a_always = FALSE],
     [DefaultConfig EXCEPT !.SIGNAL_CRITERIA.tier_d_never = FALSE],
     [DefaultConfig EXCEPT !.TIER_THRESHOLDS = [A |-> Pts(20), B |-> Pts(30), C |-> Pts(10), D |-> 0],
                           !.SIGNAL_CRITERIA.tier_d_never = FALSE]}

Idle == [path |-> "idle"]

NoVerdict == [op |-> "none"]

NoEvent == [outcome |-> "none"]

NoCron == [pc |-> "off"]

-----------------------------------------------------------------------------
(* Specification SpecScore: one evaluation of a snapshot.                   *)

InitScore ==
    /\ config = DefaultConfig
    /\ market_context \in Contexts
    /\ clock \in Clocks
    /\ \/ token_data \in Snapshots /\ faults = NoFaults
       \/ token_data \in FaultedSnapshots /\ faults \in FaultOptions
    /\ frame = Idle
    /\ result = None
    /\ probe = None
    /\ verdict = NoVerdict
    /\ trades = <<>>
    /\ bot = <<>>
    /\ journal = NoEvent
    /\ cron = NoCron
    /\ price_history = <<>>
    /\ analysis = None

Evaluate ==
    /\ frame = Idle
    /\ frame' = comprehensive_score(token_data, market_context, clock, faults, config)
    /\ result' = frame'.result
    /\ UNCHANGED <<config, token_data, market_context, clock, faults, probe, verdict,
                   trades, bot, journal, cron, price_history, analysis>>

NextScore == Evaluate

SpecScore == InitScore /\ [][NextScore]_vars

-----------------------------------------------------------------------------
(* Properties of one evaluation (SpecScore) *)

Evaluated == frame.path # "idle"

FiveCategories ==
    {"on_chain_health", "market_dynamics", "community_signals", "technical_foundation",
     "timing_factors"}

\* C3: whenever a flag raised during the evaluation is in the critical set, the result has
\* total score 0, tier D and risk level CRITICAL, whatever the category contributions are.
C3_CriticalOverride ==
    (Evaluated /\ \E i \in 1..Len(frame.red_flags) : frame.red_flags[i] \in CRITICAL_RED_FLAGS)
        => (result.total_score = 0 /\ result.tier = "D" /\ result.risk_level = "CRITICAL")

\* a critical flag raised although the categories sum to more than tier A's threshold
C3_Witness ==
    /\ Evaluated
    /\ frame.path = "critical"
    /\ SumOver(FiveCategories, frame.scores) > Pts(TIER_A_THRESHOLD)
    /\ result.total_score = 0

\* C4: the total of every returned result lies in [0, 100], on the normal path (market
\* adjustment included), on the critical-override path and on the scoring-error path.
C4_TotalInRange ==
    Evaluated => (0 <= result.total_score /\ result.total_score <= Pts(100))

\* the categories sum to more than 100 points and the total is 100
C4_Witness ==
    /\ Evaluated
    /\ frame.path = "normal"
    /\ SumOver(FiveCategories, frame.scores) > Pts(100)
    /\ result.total_score = Pts(100)

\* C5: the honeypot sub-check awards 8 points when the asset can be sold and is not flagged,
\* 5 when it can be sold but is flagged, and otherwise awards 0, raises CRITICAL_HONEYPOT and
\* ends the Safety scorer, so that no later sub-check adds points or flags.
C5_HoneypotSubCheck ==
    LET honeypot_status == Get(token_data, "honeypot_check", EmptyDict)
        can_sell == Get(honeypot_status, "can_sell", FALSE)
        flagged == Get(honeypot_status, "is_honeypot", TRUE)
        health == frame.health
    IN (Evaluated /\ faults.on_chain_health # 1) =>
          IF can_sell /\ ~flagged
          THEN /\ health.log[1] = <<"honeypot", Pts(8)>>
               /\ ~Contains(health.flags, "CRITICAL_HONEYPOT")
          ELSE IF can_sell
          THEN /\ health.log[1] = <<"honeypot", Pts(5)>>
               /\ ~Contains(health.flags, "CRITICAL_HONEYPOT")
          ELSE /\ health.score = 0
               /\ health.flags = <<"CRITICAL_HONEYPOT">>
               /\ health.log = <<(<<"honeypot", 0>>)>>

\* an asset that cannot be sold and whose sell tax and liquidity would have raised flags
C5_Witness ==
    /\ Evaluated
    /\ faults = NoFaults
    /\ ~Get(Get(token_data, "honeypot_check", EmptyDict), "can_sell", FALSE)
    /\ Get(token_data, "sell_tax_percentage", 0) > 30
    /\ frame.health.flags = <<"CRITICAL_HONEYPOT">>

\* C6 as claimed: without a critical flag, the total before market weighting is the sum of the
\* five category contributions minus the risk deduction, clamped to [0, 100].
C6_TotalSubtractsDeduction ==
    (Evaluated /\ frame.path = "normal") =>
        frame.base_score =
            Max(0, Min(Pts(100), SumOver(FiveCategories, frame.scores)
                                     - frame.scores.risk_deductions))

-----------------------------------------------------------------------------
(* Specification SpecDecide: the tier classifier and the signal-policy      *)
(* predicates applied to a score result.  The predicates accept any result, *)
(* so probe ranges over results whose tier need not follow from the total.  *)

\* totals in quarter points: 0, 9.75, 10, 14.75, 15, 17.75, 18, 24, 25, 29, 30, 39, 39.75, 40, 100
ProbeTotals ==
    {q * Quarter : q \in {0, 39, 40, 59, 60, 71, 72, 96, 100, 116, 120, 156, 159, 160, 400}}

ProbeCategoryScores ==
    {EmptyDict}
    \cup {[on_chain_health |-> Pts(9), market_dynamics |-> m, community_signals |-> c,
           technical_foundation |-> 0, timing_factors |-> 0, risk_deductions |-> 0] :
             m \in {0, Pts(12) - Quarter, Pts(12)}, c \in {Pts(12) - Quarter, Pts(12)}}

Probes ==
    {ScoringResult(total, tier, cats, <<>>, "", risk) :
        total \in ProbeTotals, tier \in {"A", "B", "C", "D"}, cats \in ProbeCategoryScores,
        risk \in {"LOW", "HIGH", "CRITICAL"}}

InitDecide ==
    /\ config \in Configs
    /\ probe \in Probes
    /\ verdict = NoVerdict
    /\ token_data = EmptyDict
    /\ market_context = None
    /\ clock = 0
    /\ faults = NoFaults
    /\ frame = Idle
    /\ result = None
    /\ trades = <<>>
    /\ bot = <<>>
    /\ journal = NoEvent
    /\ cron = NoCron
    /\ price_history = <<>>
    /\ analysis = None

DecideFrame ==
    UNCHANGED <<config, probe, token_data, market_context, clock, faults, frame, result,
                trades, bot, journal, cron, price_history, analysis>>

DetermineTier ==
    /\ verdict' = [op |-> "_determine_tier", value |-> _determine_tier(probe.total_score, config)]
    /\ DecideFrame

\* the scan hands the to_dict form and speculative_mode=True; the predicate takes both forms
ShouldSendSignal ==
    /\ \E speculative_mode \in BOOLEAN, as_dict \in BOOLEAN :
          verdict' = [op |-> "should_send_signal_comprehensive",
                      speculative_mode |-> speculative_mode, as_dict |-> as_dict,
                      value |-> should_send_signal_comprehensive(
                                    IF as_dict THEN to_dict(probe) ELSE probe,
                                    speculative_mode, config)]
    /\ DecideFrame

IsSpeculativeCandidate ==
    /\ verdict' = [op |-> "is_speculative_candidate",
                   value |-> is_speculative_candidate(probe),
                   dict_value |-> is_speculative_candidate(to_dict(probe))]
    /\ DecideFrame

IsWatchlistCandidate ==
    /\ verdict' = [op |-> "is_watchlist_candidate",
                   value |-> is_watchlist_candidate(probe, config),
                   dict_value |-> is_watchlist_candidate(to_dict(probe), config)]
    /\ DecideFrame

\* category scores handed to _apply_market_adjustments: under the names of the weight tables,
\* and under the names comprehensive_score uses
AdjustmentScores ==
    {[timing |-> Pts(10)],
     [community |-> Pts(20), timing |-> Pts(10), technical |-> Pts(5), security |-> Pts(25)],
     [on_chain_health |-> Pts(25), market_dynamics |-> Pts(20), community_signals |-> Pts(20),
      technical_foundation |-> Pts(15), timing_factors |-> Pts(10), risk_deductions |-> 0]}

\* market contexts that are not empty: a condition with a weight table, no condition, which
\* stands for sideways, and a condition without a weight table
AdjustmentContexts ==
    {[condition |-> "bull_market"], [crypto_sentiment |-> "neutral"],
     [condition |-> "crab_market"]}

\* _apply_market_adjustments on the probe's total; fault is an exception raised inside it,
\* as by a category score that is not a number
ApplyMarketAdjustments ==
    /\ \E category_scores \in AdjustmentScores, ctx \in AdjustmentContexts, fault \in BOOLEAN :
          verdict' = [op |-> "_apply_market_adjustments",
                      category_scores |-> category_scores, market_context |-> ctx,
                      fault |-> fault,
                      value |-> _apply_market_adjustments(probe.total_score, category_scores,
                                                          ctx, fault)]
    /\ DecideFrame

NextDecide ==
    \/ DetermineTier
    \/ ShouldSendSignal
    \/ IsSpeculativeCandidate
    \/ IsWatchlistCandidate
    \/ ApplyMarketAdjustments

SpecDecide == InitDecide /\ [][NextDecide]_vars

\* the ordered policy of is_speculative_candidate as the specification states it
SpeculativeRule(r) ==
    /\ r.tier \notin {"A", "B"}
    /\ r.risk_level # "CRITICAL"
    /\ \/ Get(r.category_scores, "market_dynamics", 0) >= 12 * Unit
       \/ Get(r.category_scores, "community_signals", 0) >= 12 * Unit
    /\ r.total_score >= 18 * Unit

\* C7: _determine_tier returns A if total >= threshold A, else B if total >= threshold B, else
\* C if total >= threshold C, else D; with thresholds 40, 25, 15: 40 -> A, 39 -> B, 24 -> C,
\* 10 -> D.
C7_TierClassifier ==
    verdict.op = "_determine_tier" =>
        LET total == probe.total_score
            th == config.TIER_THRESHOLDS
        IN /\ verdict.value = "A" <=> total >= th.A
           /\ verdict.value = "B" <=> (total < th.A /\ total >= th.B)
           /\ verdict.value = "C" <=> (total < th.A /\ total < th.B /\ total >= th.C)
           /\ verdict.value = "D" <=> (total < th.A /\ total < th.B /\ total < th.C)
           /\ (th.A = 40 * Unit /\ th.B = 25 * Unit /\ th.C = 15 * Unit) =>
                 /\ total = 40 * Unit => verdict.value = "A"
                 /\ total = 39 * Unit => verdict.value = "B"
                 /\ total = 24 * Unit => verdict.value = "C"
                 /\ total = 10 * Unit => verdict.value = "D"

\* a total equal to threshold A, classified A under the default thresholds
C7_Witness ==
    /\ verdict.op = "_determine_tier"
    /\ config.TIER_THRESHOLDS = DefaultConfig.TIER_THRESHOLDS
    /\ probe.total_score = 40 * Unit
    /\ verdict.value = "A"

\* C8: should_send_signal_comprehensive decides by the ordered policy: tier A and tierAAlways;
\* else tier B and total >= tierBMinScore; else tier C and total >= tierCMinScore; else
\* speculative mode and a speculative candidate; else tier D, not tierDNever and total >= the
\* tier-D floor; otherwise no signal.  With tierBMinScore = 30 a tier-B result signals at
\* total 30 and not at total 29.
C8_SignalPolicy ==
    verdict.op = "should_send_signal_comprehensive" =>
        LET total == probe.total_score
            tier == probe.tier
            policy == config.SIGNAL_CRITERIA
            expected ==
                IF tier = "A" /\ policy.tier_a_always THEN TRUE
                ELSE IF tier = "B" /\ total >= policy.tier_b_min_score THEN TRUE
                ELSE IF tier = "C" /\ total >= policy.tier_c_min_score THEN TRUE
                ELSE IF verdict.speculative_mode /\ SpeculativeRule(probe) THEN TRUE
                ELSE IF tier = "D" /\ ~policy.tier_d_never THEN total >= TIER_D_FLOOR * Unit
                ELSE FALSE
        IN /\ verdict.value = expected
           /\ (tier = "B" /\ policy.tier_b_min_score = 30 * Unit) =>
                 /\ total = 30 * Unit => verdict.value
                 /\ total = 29 * Unit => ~verdict.value

\* a tier-B result with total 30 signals under tierBMinScore = 30
C8_Witness ==
    /\ verdict.op = "should_send_signal_comprehensive"
    /\ config.SIGNAL_CRITERIA.tier_b_min_score = 30 * Unit
    /\ probe.tier = "B"
    /\ probe.total_score = 30 * Unit
    /\ verdict.value

\* C9: is_speculative_candidate holds exactly when the tier is not A or B, the risk level is
\* not CRITICAL, the Market-Dynamics or the Community contribution is >= 12 and the total is
\* >= 18; and it answers the same for a ScoringResult and for its to_dict() form.
C9_SpeculativeCandidate ==
    verdict.op = "is_speculative_candidate" =>
        /\ verdict.value = SpeculativeRule(probe)
        /\ verdict.dict_value = verdict.value

\* a tier-C result with Community at 12 and total 18 is a candidate in both forms
C9_Witness ==
    /\ verdict.op = "is_speculative_candidate"
    /\ probe.tier = "C"
    /\ probe.total_score = 18 * Unit
    /\ Get(probe.category_scores, "market_dynamics", 0) < 12 * Unit
    /\ verdict.value
    /\ verdict.dict_value

-----------------------------------------------------------------------------
(* Table paper_trades.  Prices are in units of 10^-9 USD and amounts in     *)
(* whole USD.                                                               *)

NanoPerUsd == 1000 * 1000 * 1000

\* a value stored in a DECIMAL(20, 8) column: rounded to 8 decimal places
Decimal8(nano) == ((nano + 5) \div 10) * 10

(* Quantities, values and percentages are decimal numbers m * 10^e, kept    *)
(* without trailing zeros.  The code computes them in binary floating       *)
(* point, whose rounding error (relative 2^-53) is not modelled; what the   *)
(* table rounds to 8 decimal places is.                                     *)

RECURSIVE Pow10(_)
Pow10(k) == IF k <= 0 THEN 1 ELSE 10 * Pow10(k - 1)

RECURSIVE DecNorm(_)
DecNorm(d) ==
    IF d.m = 0 THEN [m |-> 0, e |-> 0]
    ELSE IF d.m % 10 = 0 THEN DecNorm([m |-> d.m \div 10, e |-> d.e + 1])
    ELSE d

Dec(m, e) == DecNorm([m |-> m, e |-> e])

\* a price in units of 10^-9 USD as a number of USD
Usd(nano) == Dec(nano, -9)

\* the mantissa of d at exponent e, for e <= d.e
Mantissa(d, e) == d.m * Pow10(d.e - e)

DecAdd(a, b) == LET e == Min(a.e, b.e) IN Dec(Mantissa(a, e) + Mantissa(b, e), e)

DecSub(a, b) == LET e == Min(a.e, b.e) IN Dec(Mantissa(a, e) - Mantissa(b, e), e)

DecMul(a, b) == Dec(a.m * b.m, a.e + b.e)

\* m / d rounded to the nearest integer, for d > 0
RoundDiv(m, d) == IF m >= 0 THEN (2 * m + d) \div (2 * d) ELSE 0 - ((d - 2 * m) \div (2 * d))

\* the significant digits a quotient is carried to
QuotientDigits == 6

\* long division: digits are added to the quotient until it is exact or digits are used up
RECURSIVE LongDivision(_, _, _, _)
LongDivision(m, d, e, digits) ==
    IF m % d = 0 \/ digits = 0 THEN Dec(RoundDiv(m, d), e)
    ELSE LongDivision(10 * m, d, e - 1, digits - 1)

\* a / b for b # 0
DecDiv(a, b) ==
    IF b.m > 0 THEN LongDivision(a.m, b.m, a.e - b.e, QuotientDigits)
    ELSE LongDivision(0 - a.m, 0 - b.m, a.e - b.e, QuotientDigits)

\* a value stored in a DECIMAL(p, 8) column
DecRound8(d) == IF d.e >= 0 - 8 THEN d ELSE Dec(RoundDiv(d.m, Pow10(0 - 8 - d.e)), 0 - 8)

DecLess(a, b) == DecSub(a, b).m < 0

\* UNIQUE KEY unique_token_address (token_address)
ViolatesUniqueKey(table, token_address) ==
    \E n \in DOMAIN table : table[n].token_address = token_address

NewRow(table, token_address, token_symbol, buy_price_usd, amount_usd, tokens_bought, timestamp) ==
    [id |-> Len(table) + 1, token_address |-> token_address, token_symbol |-> token_symbol,
     buy_price_usd |-> Decimal8(buy_price_usd), amount_usd |-> amount_usd,
     tokens_bought |-> DecRound8(tokens_bought), buy_timestamp |-> timestamp, status |-> "OPEN",
     last_checked |-> None, last_price_usd |-> None, profit_loss_usd |-> None]

\* SELECT * FROM paper_trades WHERE token_address = %s AND status = 'OPEN' LIMIT 1;
\* None when the connection fails
get_paper_trade_by_address(table, token_address, connected) ==
    LET found == {n \in DOMAIN table :
                    table[n].token_address = token_address /\ table[n].status = "OPEN"}
    IN IF ~connected \/ found = {} THEN None
       ELSE table[CHOOSE n \in found : \A m \in found : n <= m]

\* the INSERT on a table without the unique key
StorePaperTradeNoUniqueKey(table, token_address, token_symbol, buy_price_usd, amount_usd, tokens_bought, timestamp, connected) ==
    IF ~connected THEN [ok |-> FALSE, table |-> table]
    ELSE [ok |-> TRUE,
          table |-> Append(table, NewRow(table, token_address, token_symbol, buy_price_usd,
                                         amount_usd, tokens_bought, timestamp))]

\* the INSERT with ON DUPLICATE KEY UPDATE of the inserted columns
StorePaperTradeUpsert(table, token_address, token_symbol, buy_price_usd, amount_usd, tokens_bought, timestamp, connected) ==
    IF ~connected THEN [ok |-> FALSE, table |-> table]
    ELSE IF ViolatesUniqueKey(table, token_address)
    THEN [ok |-> TRUE,
          table |-> [n \in DOMAIN table |->
                        IF table[n].token_address = token_address
                        THEN [table[n] EXCEPT !.token_symbol = token_symbol,
                                              !.buy_price_usd = Decimal8(buy_price_usd),
                                              !.amount_usd = amount_usd,
                                              !.tokens_bought = DecRound8(tokens_bought),
                                              !.buy_timestamp = timestamp]
                        ELSE table[n]]]
    ELSE [ok |-> TRUE,
          table |-> Append(table, NewRow(table, token_address, token_symbol, buy_price_usd,
                                         amount_usd, tokens_bought, timestamp))]

\* INSERT INTO paper_trades ... VALUES (..., 'OPEN'); False when the connection fails or the
\* statement raises, as it does on a duplicate token_address
store_paper_trade(table, token_address, token_symbol, buy_price_usd, amount_usd, tokens_bought, timestamp, connected) ==
    IF ~connected \/ ViolatesUniqueKey(table, token_address)
    THEN [ok |-> FALSE, table |-> table]
    ELSE [ok |-> TRUE,
          table |-> Append(table, NewRow(table, token_address, token_symbol, buy_price_usd,
                                         amount_usd, tokens_bought, timestamp))]

-----------------------------------------------------------------------------
(* Specification Spec: bot processes, each running scan_and_analyze over    *)
(* the list of tokens it discovered, against one paper_trades table.        *)

\* the longest list of discovered tokens a scan works through
MaxTokens == 1

PAPER_STARTING_USD_BALANCE == 10000

\* the scan cycles that overlap, each one call of scan_and_analyze by a process of its own
Bots == {"bot1", "bot2"}

Addresses == {"ADDR1", "ADDR2"}

\* what fetch_boosted_tokens may return; the list is not de-duplicated
TokenLists == UNION {[1 .. n -> Addresses] : n \in 0 .. MaxTokens}

\* float() of a priceUsd text, in units of 10^-9 USD; not ok where it raises ValueError
float(text) ==
    CASE text = "0.001" -> [ok |-> TRUE, value |-> NanoPerUsd \div 1000]
      [] text = "0.002" -> [ok |-> TRUE, value |-> NanoPerUsd \div 500]
      [] text = "0" -> [ok |-> TRUE, value |-> 0]
      [] text = "-0.001" -> [ok |-> TRUE, value |-> 0 - (NanoPerUsd \div 1000)]
      [] text = "0.0005" -> [ok |-> TRUE, value |-> NanoPerUsd \div 2000]
      [] text = "0.000000032" -> [ok |-> TRUE, value |-> 32]
      [] text = "0.000000016" -> [ok |-> TRUE, value |-> 16]
      [] text = "0.000000008" -> [ok |-> TRUE, value |-> 8]
      [] text = "0.000000004" -> [ok |-> TRUE, value |-> 4]
      [] OTHER -> [ok |-> FALSE, value |-> 0]

\* what fetch_pairs may return for a token; <<>> also when the request fails
PairsOptions ==
    {<<>>,
     <<[baseToken |-> [symbol |-> "MEME"], priceUsd |-> "0.001"]>>,
     <<[baseToken |-> [symbol |-> "MEME"]], [priceUsd |-> "0.002"]>>,
     <<[baseToken |-> [symbol |-> "MEME"], priceUsd |-> "0.000000004"]>>,
     <<[baseToken |-> [symbol |-> "MEME"], priceUsd |-> "0"]>>,
     <<[baseToken |-> [symbol |-> "MEME"], priceUsd |-> "-0.001"]>>,
     <<[baseToken |-> [symbol |-> "MEME"], priceUsd |-> "n/a"]>>,
     <<[baseToken |-> [symbol |-> "MEME"]]>>}

\* the first pair with a priceUsd, else the first pair
SelectedPair(pairs) ==
    LET priced == {n \in DOMAIN pairs : Get(pairs[n], "priceUsd", "") # ""}
    IN IF priced # {} THEN pairs[CHOOSE n \in priced : \A m \in priced : n <= m]
       ELSE pairs[1]

\* buy_price_usd: float(price_usd) if price_usd else None; None also where float() raises
BuyPrice(selected_pair) ==
    LET price_usd == Get(selected_pair, "priceUsd", "")
    IN IF price_usd = "" THEN [ok |-> FALSE, value |-> 0] ELSE float(price_usd)

TokenSymbol(pair) == Get(Get(pair, "baseToken", EmptyDict), "symbol", "UNKNOWN")

\* results of get_comprehensive_token_data that the scans meet: a strong token, a honeypot,
\* three weak ones scoring 14.25, 17.25 and 29.25 at ScanClock, and a flagged but sellable
\* token with a bought following, scoring 23.25
ScanSnapshots ==
    LET sellable == [honeypot_check |-> [is_honeypot |-> FALSE, can_sell |-> TRUE]]
        trap == [honeypot_check |-> [is_honeypot |-> TRUE, can_sell |-> FALSE]]
        fair == CHOOSE o \in SafetyOptions \ {EmptyDict} : o.buy_tax_percentage = 8
        harsh == CHOOSE o \in SafetyOptions \ {EmptyDict} : o.buy_tax_percentage = 50
        busy == CHOOSE o \in MarketOptions \ {EmptyDict} : o.volume_24h_usd = 20000
        viral == CHOOSE o \in SocialOptions \ {EmptyDict} : o.social.growth_pattern = "viral"
        bought == CHOOSE o \in SocialOptions \ {EmptyDict} : o.social.growth_pattern = "artificial"
        flagged == [honeypot_check |-> [is_honeypot |-> TRUE, can_sell |-> TRUE]]
    IN {sellable @@ fair @@ busy @@ viral,
        trap @@ fair @@ busy @@ viral,
        sellable @@ harsh,
        sellable @@ fair,
        sellable @@ fair @@ bought,
        flagged @@ harsh @@ bought}

\* 2025-11-05 03:00 UTC
ScanClock == 1762311600

\* the configurations the bots are started with: the defaults of config.py, and
\* TIER_C_MIN_SCORE=25 with TIER_D_NEVER_SIGNAL=false
ScanConfigs ==
    {DefaultConfig,
     [DefaultConfig EXCEPT !.SIGNAL_CRITERIA.tier_c_min_score = Pts(25),
                           !.SIGNAL_CRITERIA.tier_d_never = FALSE]}

\* lines 145-152 for every snapshot met, under each configuration of the scorer: the result
\* of comprehensive_score under _get_market_context at ScanClock, and the decision of
\* should_send_signal_comprehensive on its to_dict form with speculative_mode=True
ScanEvaluations ==
    [cfg \in ScanConfigs |->
        [td \in ScanSnapshots |->
            LET comprehensive_result ==
                    comprehensive_score(td, _get_market_context, ScanClock, NoFaults, cfg).result
            IN [comprehensive_result |-> comprehensive_result,
                should_signal |->
                    should_send_signal_comprehensive(to_dict(comprehensive_result), TRUE, cfg),
                speculative |-> is_speculative_candidate(comprehensive_result),
                watchlist |-> is_watchlist_candidate(comprehensive_result, cfg)]]]

\* MemeBot.__init__
NewBot ==
    [pc |-> "idle", boosted_tokens |-> <<>>, i |-> 1, pending |-> None,
     paper_trading |-> TRUE, paper_usd_balance |-> PAPER_STARTING_USD_BALANCE,
     paper_trades |-> <<>>, analyzed_tokens |-> <<>>]

Init ==
    /\ config \in ScanConfigs
    /\ clock = ScanClock
    /\ market_context = _get_market_context
    /\ token_data = EmptyDict
    /\ faults = NoFaults
    /\ frame = Idle
    /\ result = None
    /\ probe = None
    /\ verdict = NoVerdict
    /\ trades = <<>>
    /\ bot = [b \in Bots |-> NewBot]
    /\ journal = NoEvent
    /\ cron = NoCron
    /\ price_history = <<>>
    /\ analysis = None

ScanFrame == UNCHANGED <<config, clock, market_context, token_data, faults, frame, result,
                         probe, verdict, cron, price_history, analysis>>

\* what one pass of the loop body did
Event(b, token_address, outcome) ==
    [bot |-> b, token_address |-> token_address, outcome |-> outcome,
     total_score |-> 0, tier |-> NoTier, risk_level |-> "", should_signal |-> FALSE,
     candidate |-> FALSE, speculative_tested |-> FALSE, speculative_hit |-> FALSE,
     watchlist_tested |-> FALSE, watchlist_hit |-> FALSE,
     paper |-> "none", buy_price_usd |-> 0, sent |-> {}]

\* lines 101-118: discovery; an error or an empty list ends the scan with []
StartScan(b) ==
    /\ bot[b].pc = "idle"
    /\ \E boosted_tokens \in TokenLists :
          bot' = [bot EXCEPT ![b].boosted_tokens = boosted_tokens,
                             ![b].i = 1,
                             ![b].analyzed_tokens = <<>>,
                             ![b].pc = IF boosted_tokens = <<>> THEN "done" ELSE "analyze"]
    /\ journal' = Event(b, "", IF Len(bot'[b].boosted_tokens) = 0 THEN "no_tokens" ELSE "discovered")
    /\ UNCHANGED trades
    /\ ScanFrame

CurrentToken(b) == bot[b].boosted_tokens[bot[b].i]

\* the loop moves on to the next token
NextToken(b, signal) ==
    [bot EXCEPT ![b].i = @ + 1,
                ![b].pending = None,
                ![b].analyzed_tokens = IF signal THEN Append(@, CurrentToken(b)) ELSE @]

\* the journal entry of a token that was scored; candidate is what is_speculative_candidate
\* answers on its result
Scored(b, evaluation) ==
    [Event(b, CurrentToken(b), "skipped") EXCEPT
        !.total_score = evaluation.comprehensive_result.total_score,
        !.tier = evaluation.comprehensive_result.tier,
        !.risk_level = evaluation.comprehensive_result.risk_level,
        !.should_signal = evaluation.should_signal,
        !.candidate = evaluation.speculative]

\* lines 164-216 and 241-252: the signal branch up to the point where the paper trade is
\* stored.  connected is whether get_paper_trade_by_address gets a connection; sent names
\* the Telegram messages the pass attempts, whose failures it only logs.
HandleSignal(b, pairs, evaluation) ==
    LET token_address == CurrentToken(b)
        signal == [Scored(b, evaluation) EXCEPT !.outcome = "signal", !.sent = {"signal"}]
        selected_pair == SelectedPair(pairs)
        buy_price_usd == BuyPrice(selected_pair)
        trade_amount_usd == PAPER_TRADE_AMOUNT_USD
    IN \E connected \in BOOLEAN :
          IF ~bot[b].paper_trading
          THEN /\ bot' = NextToken(b, TRUE)
               /\ journal' = signal
          ELSE IF get_paper_trade_by_address(trades, token_address, connected) # None
          THEN /\ bot' = NextToken(b, TRUE)
               /\ journal' = [signal EXCEPT !.paper = "exists"]
          ELSE IF /\ bot[b].paper_usd_balance >= trade_amount_usd
                  /\ buy_price_usd.ok
                  /\ buy_price_usd.value > 0
          THEN /\ bot' = [bot EXCEPT
                     ![b].pc = "store",
                     ![b].pending =
                         [token_address |-> token_address,
                          token_symbol |-> TokenSymbol(selected_pair),
                          buy_price_usd |-> buy_price_usd.value,
                          amount_usd |-> trade_amount_usd,
                          tokens_bought |->
                              DecDiv(Dec(trade_amount_usd, 0), Usd(buy_price_usd.value))]]
               /\ journal' = [signal EXCEPT !.paper = "buying", !.sent = {},
                                            !.buy_price_usd = buy_price_usd.value]
          ELSE /\ bot' = NextToken(b, TRUE)
               /\ journal' = [signal EXCEPT
                     !.paper = IF bot[b].paper_usd_balance < trade_amount_usd
                               THEN "no_balance" ELSE "no_price"]

\* lines 253-283: the branch of a token that is not signalled
HandleNoSignal(b, evaluation) ==
    LET comprehensive_result == evaluation.comprehensive_result
        speculative == ~Falsy(comprehensive_result) /\ evaluation.speculative
        watchlist == ~Falsy(comprehensive_result) /\ evaluation.watchlist
    IN /\ bot' = NextToken(b, FALSE)
       /\ journal' = [Scored(b, evaluation) EXCEPT
             !.speculative_tested = ~Falsy(comprehensive_result),
             !.speculative_hit = speculative,
             !.watchlist_tested = ~Falsy(comprehensive_result),
             !.watchlist_hit = watchlist,
             !.sent = {n \in {"speculative"} : speculative}
                      \cup {n \in {"watchlist"} : watchlist}]

\* line 164: the branch on should_signal; the pairs are read again only in the signal branch
HandleScored(b, evaluation) ==
    IF evaluation.should_signal /\ ~Falsy(evaluation.comprehensive_result)
    THEN \E pairs \in PairsOptions \ {<<>>} : HandleSignal(b, pairs, evaluation)
    ELSE HandleNoSignal(b, evaluation)

\* the ways one pass ends before the token is scored: fetch_pairs raises or finds nothing,
\* analyze_token_safety raises, the evaluation raises, or anything else raises up to the
\* handler of lines 285-288
SkipOutcomes == {"pairs_error", "no_pairs", "risk_error", "evaluation_error", "token_error"}

\* a failure that ends the whole scan with []
SkipTokenEndsScan(b, outcome) ==
    /\ bot' = [bot EXCEPT ![b].pc = "done", ![b].analyzed_tokens = <<>>]
    /\ journal' = Event(b, CurrentToken(b), outcome)

\* lines 127-132, 136-141, 159-162 and 285-288: the failure is printed and the loop
\* continues with the next token
SkipToken(b, outcome) ==
    /\ bot' = NextToken(b, FALSE)
    /\ journal' = Event(b, CurrentToken(b), outcome)

\* lines 119-216 and 241-290: one token up to the point where its paper trade is stored.
\* Either a collaborator fails or finds no pairs and the loop continues, or the token is
\* scored and handled.
AnalyzeToken(b) ==
    /\ bot[b].pc = "analyze"
    /\ bot[b].i <= Len(bot[b].boosted_tokens)
    /\ \/ \E outcome \in SkipOutcomes : SkipToken(b, outcome)
       \/ \E td \in ScanSnapshots : HandleScored(b, ScanEvaluations[config][td])
    /\ UNCHANGED trades
    /\ ScanFrame

\* lines 217-252: the INSERT of store_paper_trade, whose result the scan does not read, the
\* entry appended to self.paper_trades, and the signal sent to Telegram
StorePaperTrade(b) ==
    /\ bot[b].pc = "store"
    /\ \E connected \in BOOLEAN :
          LET order == bot[b].pending
              stored == store_paper_trade(trades, order.token_address, order.token_symbol,
                                          order.buy_price_usd, order.amount_usd,
                                          order.tokens_bought, clock, connected)
          IN /\ trades' = stored.table
             /\ bot' = [NextToken(b, TRUE) EXCEPT
                           ![b].pc = "analyze",
                           ![b].paper_trades =
                               Append(@, [token_address |-> order.token_address,
                                          token_symbol |-> order.token_symbol,
                                          buy_price_usd |-> order.buy_price_usd,
                                          amount_usd |-> order.amount_usd,
                                          tokens_bought |-> order.tokens_bought,
                                          timestamp |-> clock])]
             /\ journal' = [Event(b, order.token_address, "paper_trade") EXCEPT
                               !.should_signal = TRUE,
                               !.paper = IF stored.ok THEN "created"
                                         ELSE IF connected THEN "duplicate" ELSE "storage_error",
                               !.buy_price_usd = order.buy_price_usd,
                               !.sent = {"signal"}]
    /\ ScanFrame

\* lines 292-309: the summary after the last token; the scan returns analyzed_tokens
EndScan(b) ==
    /\ bot[b].pc = "analyze"
    /\ bot[b].i > Len(bot[b].boosted_tokens)
    /\ bot' = [bot EXCEPT ![b].pc = "done"]
    /\ journal' = Event(b, "", "completed")
    /\ UNCHANGED trades
    /\ ScanFrame

Next == \E b \in Bots : StartScan(b) \/ AnalyzeToken(b) \/ StorePaperTrade(b) \/ EndScan(b)

Spec == Init /\ [][Next]_vars

OpenPositions(table, token_address) ==
    {n \in DOMAIN table :
        table[n].token_address = token_address /\ table[n].status = "OPEN"}

HoldsEntry(b, token_address) ==
    \E n \in DOMAIN bot[b].paper_trades : bot[b].paper_trades[n].token_address = token_address

\* C1: in every reachable state there is at most one OPEN paper position per token address,
\* also when scans interleave their get_paper_trade_by_address and store_paper_trade steps
\* for the same address.
C1_AtMostOneOpenPosition ==
    \A token_address \in Addresses : Cardinality(OpenPositions(trades, token_address)) <= 1

\* both bots passed the check for one address and both ran the INSERT: the second was
\* rejected and one row stands
C1_Witness ==
    /\ journal.outcome = "paper_trade"
    /\ journal.paper = "duplicate"
    /\ \A b \in Bots : HoldsEntry(b, journal.token_address)
    /\ Cardinality(OpenPositions(trades, journal.token_address)) = 1

\* a step that ends an open attempt: the SELECT found the position, or the INSERT was run
OpenAttempted(event) ==
    /\ event.outcome \in {"signal", "paper_trade"}
    /\ event.paper \in {"exists", "created", "duplicate", "storage_error"}

\* C2: an open attempt for an address that already has an OPEN position is a no-op: the
\* table holds exactly one position for the address afterwards and no field of any row has
\* changed.
C2_OpenIsIdempotent ==
    [][(OpenAttempted(journal') /\ OpenPositions(trades, journal'.token_address) # {})
          => /\ trades' = trades
             /\ Cardinality({n \in DOMAIN trades' :
                                trades'[n].token_address = journal'.token_address}) = 1]_vars

\* a second INSERT for the address, at another price than the position's entry price, was
\* run and the position still shows its own entry price
C2_Witness ==
    /\ journal.outcome = "paper_trade"
    /\ journal.paper = "duplicate"
    /\ \E n \in DOMAIN trades :
          /\ trades[n].token_address = journal.token_address
          /\ trades[n].status = "OPEN"
          /\ trades[n].buy_price_usd # Decimal8(journal.buy_price_usd)

\* C10: is_watchlist_candidate holds for a result exactly when its tier is not A, B or C and
\* its total lies in [tierCThreshold - 5, tierCThreshold); a scan tests it only for results
\* whose signal decision was no signal.
C10_WatchlistCandidate ==
    (journal.outcome \in {"signal", "skipped", "paper_trade"} /\ journal.watchlist_tested)
        => /\ ~journal.should_signal
           /\ journal.watchlist_hit <=>
                 /\ journal.tier \notin {"A", "B", "C"}
                 /\ journal.total_score >= config.TIER_THRESHOLDS.C - 5 * Unit
                 /\ journal.total_score < config.TIER_THRESHOLDS.C

\* a token that was not signalled and scores within five points below threshold C
C10_Witness ==
    /\ journal.outcome = "skipped"
    /\ journal.watchlist_tested
    /\ journal.watchlist_hit
    /\ journal.tier = "D"
    /\ ~journal.should_signal

-----------------------------------------------------------------------------
(* Specification SpecCron: runs of PaperTradePerformanceCron against a      *)
(* paper_trades table that scans have filled.                               *)

\* the priceUsd texts at which the scans opened the positions
EntryPrices == {"0.001", "0.000000016", "0.000000004"}

\* the position a scan opens for a token quoted at price_usd (main.py lines 198-227), as the
\* number n-th INSERT into the table
Opened(table, token_address, price_usd) ==
    store_paper_trade(table, token_address, "MEME", float(price_usd).value,
                      PAPER_TRADE_AMOUNT_USD,
                      DecDiv(Dec(PAPER_TRADE_AMOUNT_USD, 0), Usd(float(price_usd).value)),
                      ScanClock + Len(table), TRUE).table

RECURSIVE TablesAfter(_)
TablesAfter(n) ==
    IF n = 0 THEN {<<>>}
    ELSE LET earlier == TablesAfter(n - 1)
         IN earlier \cup {Opened(table, token_address, price_usd) :
                             table \in earlier, token_address \in Addresses,
                             price_usd \in EntryPrices}

\* the tables the cron may find
CronTables == TablesAfter(Cardinality(Addresses))

\* SELECT * FROM paper_trades WHERE status = 'OPEN' ORDER BY buy_timestamp ASC; [] when the
\* connection fails.  Rows are inserted in the order of their buy_timestamp.
get_open_paper_trades(table, connected) ==
    IF ~connected THEN <<>>
    ELSE SelectSeq(table, LAMBDA row : row.status = "OPEN")

\* an UPDATE that also closes the position
UpdateClosesPosition(table, trade_id, last_price_usd, profit_loss_usd, now, connected) ==
    IF ~connected THEN [ok |-> FALSE, table |-> table]
    ELSE [ok |-> TRUE,
          table |-> [n \in DOMAIN table |->
                        IF table[n].id = trade_id
                        THEN [table[n] EXCEPT
                                 !.status = "CLOSED",
                                 !.last_checked = [at |-> now],
                                 !.last_price_usd = Usd(Decimal8(last_price_usd)),
                                 !.profit_loss_usd = DecRound8(profit_loss_usd)]
                        ELSE table[n]]]

\* an UPDATE that leaves a P/L the row already holds
UpdateKeepsFirstProfit(table, trade_id, last_price_usd, profit_loss_usd, now, connected) ==
    IF ~connected THEN [ok |-> FALSE, table |-> table]
    ELSE [ok |-> TRUE,
          table |-> [n \in DOMAIN table |->
                        IF table[n].id = trade_id
                        THEN [table[n] EXCEPT
                                 !.last_checked = [at |-> now],
                                 !.last_price_usd = Usd(Decimal8(last_price_usd)),
                                 !.profit_loss_usd =
                                     IF @ = None THEN DecRound8(profit_loss_usd) ELSE @]
                        ELSE table[n]]]

\* an UPDATE that adds the P/L to the one the row holds
UpdateAddsProfit(table, trade_id, last_price_usd, profit_loss_usd, now, connected) ==
    IF ~connected THEN [ok |-> FALSE, table |-> table]
    ELSE [ok |-> TRUE,
          table |-> [n \in DOMAIN table |->
                        IF table[n].id = trade_id
                        THEN [table[n] EXCEPT
                                 !.last_checked = [at |-> now],
                                 !.last_price_usd = Usd(Decimal8(last_price_usd)),
                                 !.profit_loss_usd =
                                     IF @ = None THEN DecRound8(profit_loss_usd)
                                     ELSE DecRound8(DecAdd(@, profit_loss_usd))]
                        ELSE table[n]]]

\* UPDATE paper_trades SET last_checked = NOW(), last_price_usd = %s, profit_loss_usd = %s,
\* performance_note = %s WHERE id = %s; False when the connection fails.  The columns that
\* may be NULL hold None or a record.
update_paper_trade_performance(table, trade_id, last_price_usd, profit_loss_usd, now, connected) ==
    IF ~connected THEN [ok |-> FALSE, table |-> table]
    ELSE [ok |-> TRUE,
          table |-> [n \in DOMAIN table |->
                        IF table[n].id = trade_id
                        THEN [table[n] EXCEPT
                                 !.last_checked = [at |-> now],
                                 !.last_price_usd = Usd(Decimal8(last_price_usd)),
                                 !.profit_loss_usd = DecRound8(profit_loss_usd)]
                        ELSE table[n]]]

\* what fetch_pairs may return for the token of an open trade: nothing, pairs without a usable
\* price, or a quote at the entry price, its double or its half
Quotes(trade) ==
    LET near == IF trade.buy_price_usd >= 1000
                THEN {"0.001", "0.002", "0.0005"}
                ELSE {"0.000000016", "0.000000032", "0.000000008"}
    IN {<<>>, <<[baseToken |-> [symbol |-> "MEME"]]>>, <<[priceUsd |-> "0"]>>}
       \cup {<<[priceUsd |-> "n/a"], [priceUsd |-> price_usd]>> : price_usd \in near}

\* lines 61-70: the first pair whose priceUsd is present and numeric; not ok stands for None
LatestPrice(pairs) ==
    LET usable == {n \in DOMAIN pairs :
                     /\ Get(pairs[n], "priceUsd", "") # ""
                     /\ float(pairs[n].priceUsd).ok}
    IN IF usable = {} THEN [ok |-> FALSE, value |-> 0]
       ELSE float(pairs[CHOOSE n \in usable : \A m \in usable : n <= m].priceUsd)

NewCron ==
    [pc |-> "idle", open_trades |-> <<>>, i |-> 1, total_pnl_usd |-> Dec(0, 0),
     profitable |-> 0, losses |-> 0, trade_rows |-> <<>>, seen |-> {}, report |-> None,
     run |-> 0]

InitCron ==
    /\ trades \in CronTables
    /\ cron = NewCron
    /\ clock = ScanClock + Cardinality(Addresses)
    /\ config = DefaultConfig
    /\ market_context = None
    /\ token_data = EmptyDict
    /\ faults = NoFaults
    /\ frame = Idle
    /\ result = None
    /\ probe = None
    /\ verdict = NoVerdict
    /\ bot = <<>>
    /\ journal = NoEvent
    /\ price_history = <<>>
    /\ analysis = None

CronFrame == UNCHANGED <<config, market_context, token_data, faults, frame, result, probe,
                         verdict, bot, price_history, analysis>>

\* what one pass of the loop of fetch_and_update_trades did with its trade
CronEvent(trade, outcome) ==
    [outcome |-> outcome, trade |-> trade, latest_price_usd |-> None,
     current_value_usd |-> None, pnl_usd |-> None, pnl_pct |-> None,
     connected |-> FALSE, stored |-> FALSE]

\* the most runs of the cron that are followed
MaxRuns == 2

\* lines 26-31: a run starts by reading the open trades and resetting its totals
FetchOpenTrades ==
    /\ cron.pc \in {"idle", "done"}
    /\ cron.run < MaxRuns
    /\ \E connected \in BOOLEAN :
          cron' = [NewCron EXCEPT !.pc = "loop", !.run = cron.run + 1,
                                  !.open_trades = get_open_paper_trades(trades, connected)]
    /\ clock' = clock + 1
    /\ journal' = [outcome |-> "fetched"]
    /\ UNCHANGED trades
    /\ CronFrame

\* lines 76-107: the arithmetic of one trade at latest_price_usd, the UPDATE, whose result the
\* cron does not read, and the row added to the report
RecordPerformance(trade, latest_price_usd, connected) ==
    LET buy_price_usd == Usd(trade.buy_price_usd)
        amount_usd == Dec(trade.amount_usd, 0)
        tokens_bought == trade.tokens_bought
        current_value_usd == DecMul(tokens_bought, Usd(latest_price_usd))
        pnl_usd == DecSub(current_value_usd, amount_usd)
        pnl_pct == IF buy_price_usd.m > 0
                   THEN DecMul(DecDiv(DecSub(Usd(latest_price_usd), buy_price_usd),
                                      buy_price_usd),
                               Dec(100, 0))
                   ELSE Dec(0, 0)
        updated == update_paper_trade_performance(trades, trade.id, latest_price_usd, pnl_usd,
                                                  clock, connected)
    IN /\ trades' = updated.table
       /\ cron' = [cron EXCEPT
             !.i = @ + 1,
             !.seen = @ \cup {<<trade.token_symbol, trade.token_address>>},
             !.total_pnl_usd = DecAdd(@, pnl_usd),
             !.profitable = IF pnl_usd.m >= 0 THEN @ + 1 ELSE @,
             !.losses = IF pnl_usd.m >= 0 THEN @ ELSE @ + 1,
             !.trade_rows =
                 Append(@, [token_symbol |-> trade.token_symbol,
                            token_address |-> trade.token_address,
                            buy_price |-> trade.buy_price_usd,
                            latest_price |-> latest_price_usd,
                            amount_usd |-> trade.amount_usd,
                            tokens_bought |-> tokens_bought,
                            pnl_usd |-> pnl_usd,
                            pnl_pct |-> pnl_pct,
                            buy_timestamp |-> trade.buy_timestamp,
                            current_value_usd |-> current_value_usd])]
       /\ journal' = [CronEvent(trade, "updated") EXCEPT
                         !.latest_price_usd = latest_price_usd,
                         !.current_value_usd = current_value_usd,
                         !.pnl_usd = pnl_usd,
                         !.pnl_pct = pnl_pct,
                         !.connected = connected,
                         !.stored = updated.ok]

\* the loop moves on without a row for the trade
SkipTrade(trade, outcome, fetched) ==
    /\ cron' = [cron EXCEPT
          !.i = @ + 1,
          !.seen = IF fetched THEN @ \cup {<<trade.token_symbol, trade.token_address>>} ELSE @]
    /\ journal' = CronEvent(trade, outcome)
    /\ UNCHANGED trades

\* lines 33-107: one pass of the loop
UpdateTrade ==
    /\ cron.pc = "loop"
    /\ cron.i <= Len(cron.open_trades)
    /\ LET trade == cron.open_trades[cron.i]
       IN IF trade.buy_price_usd = 0 \/ trade.amount_usd = 0 \/ trade.tokens_bought.m = 0
          THEN SkipTrade(trade, "zero_price", FALSE)
          ELSE IF <<trade.token_symbol, trade.token_address>> \in cron.seen
          THEN SkipTrade(trade, "seen", FALSE)
          ELSE \/ SkipTrade(trade, "fetch_error", TRUE)
               \/ \E pairs \in Quotes(trade) :
                     LET latest_price_usd == LatestPrice(pairs)
                     IN IF ~latest_price_usd.ok \/ latest_price_usd.value = 0
                        THEN SkipTrade(trade, "no_price", TRUE)
                        ELSE \E connected \in BOOLEAN :
                                RecordPerformance(trade, latest_price_usd.value, connected)
    /\ UNCHANGED clock
    /\ CronFrame

\* sorted(..., key=pnl_pct, reverse=True) is stable: a row goes behind the rows that are not
\* below it
RECURSIVE InsertByPnlPct(_, _)
InsertByPnlPct(sorted, row) ==
    IF sorted = <<>> THEN <<row>>
    ELSE IF DecLess(Head(sorted).pnl_pct, row.pnl_pct) THEN <<row>> \o sorted
    ELSE <<Head(sorted)>> \o InsertByPnlPct(Tail(sorted), row)

\* the rows in the order of the run
RowsAsCollected(trade_rows, sorted) == sorted \o trade_rows

RECURSIVE SortByPnlPct(_, _)
SortByPnlPct(trade_rows, sorted) ==
    IF trade_rows = <<>> THEN sorted
    ELSE SortByPnlPct(Tail(trade_rows), InsertByPnlPct(sorted, Head(trade_rows)))

RECURSIVE SumAmounts(_)
SumAmounts(trade_rows) ==
    IF trade_rows = <<>> THEN 0 ELSE Head(trade_rows).amount_usd + SumAmounts(Tail(trade_rows))

\* lines 110-188: the figures of the report, from the rows handed in and the totals the run
\* left on the cron
build_report(self, trade_rows) ==
    LET total_invested == SumAmounts(trade_rows)
    IN [sorted_trades |-> SortByPnlPct(trade_rows, <<>>),
        total_invested |-> total_invested,
        total_current_value |-> DecAdd(Dec(total_invested, 0), self.total_pnl_usd),
        overall_pct |-> IF total_invested > 0
                        THEN DecMul(DecDiv(self.total_pnl_usd, Dec(total_invested, 0)),
                                    Dec(100, 0))
                        ELSE Dec(0, 0),
        win_rate |-> IF trade_rows # <<>>
                     THEN DecMul(DecDiv(Dec(self.profitable, 0), Dec(Len(trade_rows), 0)),
                                 Dec(100, 0))
                     ELSE Dec(0, 0),
        total_pnl_usd |-> self.total_pnl_usd,
        profitable |-> self.profitable,
        losses |-> self.losses]

\* lines 201-207: after the loop the report is built and sent, if there are rows
BuildReport ==
    /\ cron.pc = "loop"
    /\ cron.i > Len(cron.open_trades)
    /\ cron' = [cron EXCEPT
          !.pc = "done",
          !.report = IF cron.trade_rows # <<>> THEN build_report(cron, cron.trade_rows)
                     ELSE None]
    /\ journal' = [outcome |-> IF cron.trade_rows # <<>> THEN "reported" ELSE "nothing_open"]
    /\ UNCHANGED <<trades, clock>>
    /\ CronFrame

NextCron == FetchOpenTrades \/ UpdateTrade \/ BuildReport

SpecCron == InitCron /\ [][NextCron]_vars

-----------------------------------------------------------------------------
(* Properties of the positions and of the cron (Spec, SpecCron) *)

\* n / p for the notional and the entry price that the position records
QuantityOf(row) == DecDiv(Dec(row.amount_usd, 0), Usd(row.buy_price_usd))

\* the update of the journal follows the arithmetic of the claim
UpdateArithmetic(event) ==
    LET p == Usd(event.trade.buy_price_usd)
        n == Dec(event.trade.amount_usd, 0)
        q == Usd(event.latest_price_usd)
        quantity == event.trade.tokens_bought
    IN /\ event.pnl_usd = DecSub(DecMul(quantity, q), n)
       /\ event.pnl_pct = DecMul(DecDiv(DecSub(q, p), p), Dec(100, 0))
       /\ (p = Dec(1, -3) /\ n = Dec(25, 0)) =>
             /\ quantity = Dec(25000, 0)
             /\ q = Dec(2, -3) => (event.pnl_usd = Dec(25, 0) /\ event.pnl_pct = Dec(100, 0))

\* C11 as claimed: a position with entry price p > 0 and notional n holds the quantity n / p,
\* and an update at latest price q records pnlUsd = quantity * q - n and
\* pnlPct = (q - p) / p * 100; for p = 0.001 and n = 25 the quantity is 25000 and an update at
\* q = 0.002 records pnlUsd = 25 and pnlPct = 100.
C11_PositionArithmetic ==
    /\ \A k \in DOMAIN trades :
          trades[k].buy_price_usd > 0 => trades[k].tokens_bought = QuantityOf(trades[k])
    /\ journal.outcome = "updated" => UpdateArithmetic(journal)

\* the same for the positions whose entry price the table holds as it was quoted, the example
\* of the claim among them
C11_AtEightDecimals ==
    /\ \A k \in DOMAIN trades :
          trades[k].buy_price_usd >= 1000 => trades[k].tokens_bought = QuantityOf(trades[k])
    /\ journal.outcome = "updated" => UpdateArithmetic(journal)

\* the example of the claim: opened at 0.001 with 25 USD, updated at 0.002
C11_Example ==
    /\ journal.outcome = "updated"
    /\ journal.trade.buy_price_usd = NanoPerUsd \div 1000
    /\ journal.latest_price_usd = NanoPerUsd \div 500
    /\ journal.pnl_usd = Dec(25, 0)
    /\ journal.pnl_pct = Dec(100, 0)

\* the row with the given id
RowOf(table, trade_id) == table[CHOOSE k \in DOMAIN table : table[k].id = trade_id]

\* the steps that are a pass of the cron's loop over one open trade
IsPass(event) == event.outcome \in {"updated", "zero_price", "seen", "fetch_error", "no_price"}

\* a pass that repeats the latest price of the update before it leaves the stored last price
\* and P/L as that update left them
RepeatedUpdateChangesNothing ==
    (journal'.outcome = "updated" /\ journal'.stored) =>
        LET before == RowOf(trades, journal'.trade.id)
            after == RowOf(trades', journal'.trade.id)
        IN /\ after.last_price_usd = Usd(Decimal8(journal'.latest_price_usd))
           /\ before.last_price_usd = Usd(Decimal8(journal'.latest_price_usd)) =>
                 /\ after.last_price_usd = before.last_price_usd
                 /\ after.profit_loss_usd = before.profit_loss_usd

C13_StoredEntryPricePositive ==
    [][/\ (journal'.outcome = "signal" /\ journal'.paper = "no_price") =>
             /\ trades' = trades
             /\ bot'[journal'.bot].pc = "analyze"
             /\ bot'[journal'.bot].i = bot[journal'.bot].i + 1
       /\ (journal'.outcome = "signal" /\ journal'.paper = "buying") =>
             journal'.buy_price_usd > 0
       /\ \A k \in DOMAIN trades' : trades'[k].buy_price_usd > 0]_vars

\* the part of C13 about the attempts: the same without the conclusion about the stored
\* positions
C13_InvalidPriceOpensNothing ==
    [][/\ (journal'.outcome = "signal" /\ journal'.paper = "no_price") =>
             /\ trades' = trades
             /\ bot'[journal'.bot].pc = "analyze"
             /\ bot'[journal'.bot].i = bot[journal'.bot].i + 1
       /\ (journal'.outcome = "signal" /\ journal'.paper = "buying") =>
             journal'.buy_price_usd > 0]_vars

RECURSIVE SumPnlUsd(_)
SumPnlUsd(rows) ==
    IF rows = <<>> THEN Dec(0, 0) ELSE DecAdd(Head(rows).pnl_usd, SumPnlUsd(Tail(rows)))

RECURSIVE SumNotional(_)
SumNotional(rows) == IF rows = <<>> THEN 0 ELSE Head(rows).amount_usd + SumNotional(Tail(rows))

\* C14: the summary of a report built from the rows of the positions the run updated has
\* totalInvested = the sum of their notionals and totalPnl = the sum of their pnlUsd; a position
\* counts as a win if its pnlUsd is not below 0 and as a loss otherwise, each position exactly
\* once; winRate = wins / (wins + losses), given in percent; and the positions are listed in
\* descending order of pnlPct.
C14_PortfolioSummary ==
    journal.outcome = "reported" =>
        LET rows == cron.trade_rows
            summary == cron.report
            listed == summary.sorted_trades
            wins == {k \in DOMAIN rows : rows[k].pnl_usd.m >= 0}
            lost == {k \in DOMAIN rows : rows[k].pnl_usd.m < 0}
        IN /\ summary.total_invested = SumNotional(rows)
           /\ summary.total_pnl_usd = SumPnlUsd(rows)
           /\ summary.profitable = Cardinality(wins)
           /\ summary.losses = Cardinality(lost)
           /\ summary.profitable + summary.losses = Len(rows)
           /\ summary.win_rate =
                  DecMul(DecDiv(Dec(summary.profitable, 0),
                                Dec(summary.profitable + summary.losses, 0)),
                         Dec(100, 0))
           /\ Len(listed) = Len(rows)
           /\ \A k \in DOMAIN rows : \E j \in DOMAIN listed : listed[j] = rows[k]
           /\ \A j \in DOMAIN listed : \A k \in DOMAIN listed :
                 j < k => ~DecLess(listed[j].pnl_pct, listed[k].pnl_pct)

\* a report of a loss and a win, which the run collected in ascending order of pnlPct
C14_Witness ==
    /\ journal.outcome = "reported"
    /\ Len(cron.trade_rows) = 2
    /\ DecLess(cron.trade_rows[1].pnl_pct, cron.trade_rows[2].pnl_pct)
    /\ cron.report.profitable = 1
    /\ cron.report.losses = 1
    /\ cron.report.win_rate = Dec(50, 0)
    /\ cron.report.sorted_trades[1] = cron.trade_rows[2]

-----------------------------------------------------------------------------
(* Specification SpecTiming: analyze_timing_patterns of PriceTracker over   *)
(* the rows of table price_history.                                         *)

\* the most rows of price_history
MaxSamples == 3

\* minutes_since_entry of the recorded snapshots: on both sides of every limit of the CASE
MinuteOptions == {10, 15, 16, 20, 30, 31, 60, 61, 70, 120, 121, 360, 361, 1440, 1441}

\* performance_pct of the recorded snapshots, in percent
PerformanceOptions == {0 - 20, 120}

\* the tables record_price_snapshot may have left: rows in insertion order
PriceHistories ==
    UNION {[1 .. n -> [minutes_since_entry : MinuteOptions,
                       performance_pct : PerformanceOptions]] : n \in 0 .. MaxSamples}

\* ORDER BY CASE time_interval WHEN ... THEN 1 ... WHEN '24+ hours' THEN 7 END
IntervalOrder ==
    <<"0-15 min", "15-30 min", "30-60 min", "1-2 hours", "2-6 hours", "6-24 hours",
      "24+ hours">>

\* the CASE with the limits left out of their intervals
TimeIntervalBelowLimit(minutes_since_entry) ==
    IF minutes_since_entry < 15 THEN "0-15 min"
    ELSE IF minutes_since_entry < 30 THEN "15-30 min"
    ELSE IF minutes_since_entry < 60 THEN "30-60 min"
    ELSE IF minutes_since_entry < 120 THEN "1-2 hours"
    ELSE IF minutes_since_entry < 360 THEN "2-6 hours"
    ELSE IF minutes_since_entry < 1440 THEN "6-24 hours"
    ELSE "24+ hours"

\* CASE WHEN minutes_since_entry <= 15 THEN '0-15 min' ... ELSE '24+ hours' END
TimeInterval(minutes_since_entry) ==
    IF minutes_since_entry <= 15 THEN "0-15 min"
    ELSE IF minutes_since_entry <= 30 THEN "15-30 min"
    ELSE IF minutes_since_entry <= 60 THEN "30-60 min"
    ELSE IF minutes_since_entry <= 120 THEN "1-2 hours"
    ELSE IF minutes_since_entry <= 360 THEN "2-6 hours"
    ELSE IF minutes_since_entry <= 1440 THEN "6-24 hours"
    ELSE "24+ hours"

RECURSIVE SumPerformance(_, _)
SumPerformance(history, group) ==
    IF group = {} THEN 0
    ELSE LET k == CHOOSE x \in group : TRUE
         IN history[k].performance_pct + SumPerformance(history, group \ {k})

\* COUNT, AVG, MAX, MIN and the three SUM(CASE ...) over the rows of one group
GroupRow(history, time_interval) ==
    LET group == {k \in DOMAIN history :
                     TimeInterval(history[k].minutes_since_entry) = time_interval}
        above(limit) == Cardinality({k \in group : history[k].performance_pct > limit})
    IN [time_interval |-> time_interval,
        snapshots |-> Cardinality(group),
        avg_performance |->
            IF group = {} THEN None
            ELSE DecDiv(Dec(SumPerformance(history, group), 0), Dec(Cardinality(group), 0)),
        max_performance |->
            IF group = {} THEN None
            ELSE Dec(CHOOSE x \in {history[k].performance_pct : k \in group} :
                        \A k \in group : history[k].performance_pct <= x, 0),
        min_performance |->
            IF group = {} THEN None
            ELSE Dec(CHOOSE x \in {history[k].performance_pct : k \in group} :
                        \A k \in group : history[k].performance_pct >= x, 0),
        pumps_10pct |-> above(10),
        pumps_50pct |-> above(50),
        moons_100pct |-> above(100)]

\* a row for each of the seven intervals, its group empty or not
RowPerInterval(history) == [j \in DOMAIN IntervalOrder |-> GroupRow(history, IntervalOrder[j])]

\* GROUP BY time_interval ORDER BY ...: a row for each interval that has rows, in the order
\* of IntervalOrder
TimingQuery(history) ==
    LET present == SelectSeq(IntervalOrder,
                             LAMBDA time_interval :
                                 \E k \in DOMAIN history :
                                     TimeInterval(history[k].minutes_since_entry) = time_interval)
    IN [j \in DOMAIN present |-> GroupRow(history, present[j])]

InitTiming ==
    /\ price_history \in PriceHistories
    /\ analysis = None
    /\ journal = NoEvent
    /\ trades = <<>>
    /\ cron = NoCron
    /\ clock = ScanClock
    /\ config = DefaultConfig
    /\ market_context = None
    /\ token_data = EmptyDict
    /\ faults = NoFaults
    /\ frame = Idle
    /\ result = None
    /\ probe = None
    /\ verdict = NoVerdict
    /\ bot = <<>>

\* lines 158-243: without a connection the method returns at once; with one it reads the
\* groups and writes a block of lines for each
analyze_timing_patterns ==
    /\ journal.outcome = "none"
    /\ \E connected \in BOOLEAN :
          /\ analysis' = IF connected THEN TimingQuery(price_history) ELSE None
          /\ journal' = [outcome |-> IF connected THEN "analyzed" ELSE "not_connected"]
    /\ UNCHANGED <<price_history, trades, cron, clock, config, market_context, token_data,
                   faults, frame, result, probe, verdict, bot>>

NextTiming == analyze_timing_patterns

SpecTiming == InitTiming /\ [][NextTiming]_vars

-----------------------------------------------------------------------------
(* Properties of the bucketizer (SpecTiming) *)

\* the seven bands: minutes above lower and up to upper, the last band without an upper end and
\* the first with its lower end 0 included
Bands ==
    <<[label |-> "0-15 min", lower |-> 0 - 1, upper |-> 15, open |-> FALSE],
      [label |-> "15-30 min", lower |-> 15, upper |-> 30, open |-> FALSE],
      [label |-> "30-60 min", lower |-> 30, upper |-> 60, open |-> FALSE],
      [label |-> "1-2 hours", lower |-> 60, upper |-> 120, open |-> FALSE],
      [label |-> "2-6 hours", lower |-> 120, upper |-> 360, open |-> FALSE],
      [label |-> "6-24 hours", lower |-> 360, upper |-> 1440, open |-> FALSE],
      [label |-> "24+ hours", lower |-> 1440, upper |-> 1440, open |-> TRUE]>>

InBand(band, minutes) == minutes > band.lower /\ (band.open \/ minutes <= band.upper)

\* the samples of a band
SamplesIn(band) ==
    {k \in DOMAIN price_history : InBand(band, price_history[k].minutes_since_entry)}

\* the place of a label among the bands
BandOf(label) == CHOOSE b \in DOMAIN Bands : Bands[b].label = label

RECURSIVE SumSnapshots(_)
SumSnapshots(rows) == IF rows = <<>> THEN 0 ELSE Head(rows).snapshots + SumSnapshots(Tail(rows))

\* C15: analyze_timing_patterns assigns every sample to exactly one of the seven bands [0,15],
\* (15,30], (30,60], (60,120], (120,360], (360,1440], (1440,oo) by its minutes since entry,
\* emits the bands in that order whatever the order in which the samples were inserted, emits
\* no band without samples, and the emitted counts sum to the number of samples.
C15_Bucketizer ==
    journal.outcome = "analyzed" =>
        /\ \A k \in DOMAIN price_history :
              Cardinality({b \in DOMAIN Bands :
                              InBand(Bands[b], price_history[k].minutes_since_entry)}) = 1
        /\ \A j \in DOMAIN analysis :
              /\ \E b \in DOMAIN Bands : Bands[b].label = analysis[j].time_interval
              /\ analysis[j].snapshots =
                     Cardinality(SamplesIn(Bands[BandOf(analysis[j].time_interval)]))
              /\ analysis[j].snapshots > 0
        /\ \A b \in DOMAIN Bands :
              SamplesIn(Bands[b]) # {} =>
                  \E j \in DOMAIN analysis : analysis[j].time_interval = Bands[b].label
        /\ \A i \in DOMAIN analysis : \A j \in DOMAIN analysis :
              i < j => BandOf(analysis[i].time_interval) < BandOf(analysis[j].time_interval)
        /\ SumSnapshots(analysis) = Len(price_history)

\* samples inserted with the later band first, one of them on the limit of its band: the
\* bands are emitted in the fixed order and five bands are left out
C15_Witness ==
    /\ journal.outcome = "analyzed"
    /\ Len(price_history) = 3
    /\ price_history[1].minutes_since_entry = 1441
    /\ price_history[2].minutes_since_entry = 15
    /\ price_history[3].minutes_since_entry = 10
    /\ Len(analysis) = 2
    /\ analysis[1].time_interval = "0-15 min" /\ analysis[1].snapshots = 2
    /\ analysis[2].time_interval = "24+ hours" /\ analysis[2].snapshots = 1

\* the samples of the example: minutes since entry 10, 20 and 70, in this order
ExampleSamples ==
    /\ Len(price_history) = 3
    /\ price_history[1].minutes_since_entry = 10
    /\ price_history[2].minutes_since_entry = 20
    /\ price_history[3].minutes_since_entry = 70

\* C16 as claimed: samples with minutes since entry 10, 20 and 70 are counted in the bands
\* 0-15, 15-30 and 30-60, each with count 1, and no band without samples is emitted.
C16_ExampleAsClaimed ==
    (journal.outcome = "analyzed" /\ ExampleSamples) =>
        /\ Len(analysis) = 3
        /\ analysis[1].time_interval = "0-15 min" /\ analysis[1].snapshots = 1
        /\ analysis[2].time_interval = "15-30 min" /\ analysis[2].snapshots = 1
        /\ analysis[3].time_interval = "30-60 min" /\ analysis[3].snapshots = 1

\* C16: samples with minutes since entry 10, 20 and 70 are counted in the bands 0-15, 15-30
\* and 60-120 (labelled '1-2 hours'), each with count 1, and no band without samples is
\* emitted: the output has these three rows only.
C16_Example ==
    (journal.outcome = "analyzed" /\ ExampleSamples) =>
        /\ Len(analysis) = 3
        /\ analysis[1].time_interval = "0-15 min" /\ analysis[1].snapshots = 1
        /\ analysis[2].time_interval = "15-30 min" /\ analysis[2].snapshots = 1
        /\ analysis[3].time_interval = "1-2 hours" /\ analysis[3].snapshots = 1
        /\ \A j \in DOMAIN analysis : analysis[j].snapshots # 0

\* the example analysed: three rows, the third for the band of 70 minutes
C16_Witness ==
    /\ journal.outcome = "analyzed"
    /\ ExampleSamples
    /\ Len(analysis) = 3
    /\ analysis[3] = GroupRow(price_history, "1-2 hours")
    /\ analysis[3].snapshots = 1

-----------------------------------------------------------------------------
(* Properties of the market adjustment and of the configuration (SpecDecide) *)

\* s * w - s for contribution s and weight w in tenths
WeightedChange(s, w) == (s * w) \div 10 - s

RECURSIVE SumOfChanges(_, _, _)
SumOfChanges(categories, category_scores, weights) ==
    IF categories = {} THEN 0
    ELSE LET c == CHOOSE x \in categories : TRUE
         IN WeightedChange(category_scores[c], weights[c])
            + SumOfChanges(categories \ {c}, category_scores, weights)

-----------------------------------------------------------------------------
(* Properties of the category scorers (SpecScore) *)

\* C18 as claimed: for every snapshot each category scorer's contribution is at most its point
\* budget: Safety 25, Market Dynamics 20, Community 20, Technical/Timing 15, Market-Context 10.
C18_CategoryBudgets ==
    (Evaluated /\ frame.path \in {"normal", "critical"}) =>
        /\ frame.scores.on_chain_health <= 25 * Unit
        /\ frame.scores.market_dynamics <= 20 * Unit
        /\ frame.scores.community_signals <= 20 * Unit
        /\ frame.scores.technical_foundation <= 15 * Unit
        /\ frame.scores.timing_factors <= 10 * Unit

\* the two categories whose sub-checks add up to their budgets do stay within them
C18_SafetyAndTimingBudgets ==
    (Evaluated /\ frame.path \in {"normal", "critical"}) =>
        /\ frame.scores.on_chain_health <= 25 * Unit
        /\ frame.scores.timing_factors <= 10 * Unit


-----------------------------------------------------------------------------
(* Fault isolation between the category scorers (SpecScore) *)

\* the flag each category scorer appends in its except block
AnalysisErrorFlag ==
    [on_chain_health |-> "safety_analysis_error", market_dynamics |-> "market_analysis_error",
     community_signals |-> "social_analysis_error",
     technical_foundation |-> "timing_analysis_error",
     timing_factors |-> "timing_analysis_error"]

\* the sub-check that fails is reached unless the honeypot check returned before it
FaultReached(c) ==
    c = "on_chain_health" => (faults[c] = 1 \/ ~HoneypotCheck(token_data).stop)

FaultedCategories == {c \in FiveCategories : faults[c] # 0 /\ FaultReached(c)}

\* the same evaluation with no fault injected
CleanEvaluation == comprehensive_score(token_data, market_context, clock, NoFaults, config)

SiblingsUnaffected ==
    \A c \in FaultedCategories : \A d \in FiveCategories \ {c} :
        frame.scores[d] = CleanEvaluation.scores[d]

\* C19: when one category scorer fails, the evaluation still returns, that category
\* contributes 0 and its analysis-error flag is raised, and every other category
\* contributes what it contributes when no fault occurs.
C19_FaultIsolation ==
    (Evaluated /\ FaultedCategories # {} /\ ~faults.outer)
        => /\ frame.path # "error"
           /\ \A c \in FaultedCategories :
                /\ frame.scores[c] = 0
                /\ Contains(frame.red_flags, AnalysisErrorFlag[c])
           /\ SiblingsUnaffected

\* C19, the part the code keeps: the evaluation returns, the analysis-error flag of the
\* failed category is raised, and the other categories contribute what they contribute
\* when no fault occurs.
C19_FaultContained ==
    (Evaluated /\ FaultedCategories # {} /\ ~faults.outer)
        => /\ frame.path # "error"
           /\ \A c \in FaultedCategories : Contains(frame.red_flags, AnalysisErrorFlag[c])
           /\ SiblingsUnaffected

\* a scorer that failed after an earlier sub-check had already added points
C19_PartialScoreKept ==
    /\ Evaluated
    /\ faults.market_dynamics # 0
    /\ frame.scores.market_dynamics > 0
    /\ Contains(frame.red_flags, "market_analysis_error")


-----------------------------------------------------------------------------
(* Threshold configuration (SpecDecide): __init__ copies the three          *)
(* thresholds of config.py into TIER_THRESHOLDS without comparing them.     *)

StrictlyDecreasing(th) == th.A > th.B /\ th.B > th.C /\ th.C > 0

\* C20: a scorer whose tier thresholds are not strictly decreasing (A > B > C > 0) is never
\* constructed, so no tier is ever determined under non-monotonic thresholds.
C20_ThresholdsStrictlyDecreasing ==
    verdict.op = "_determine_tier" => StrictlyDecreasing(config.TIER_THRESHOLDS)

\* a total of 25 classified A by a scorer constructed with thresholds A = 20, B = 30, C = 10
C20_TierUnderNonMonotonicThresholds ==
    /\ verdict.op = "_determine_tier"
    /\ ~StrictlyDecreasing(config.TIER_THRESHOLDS)
    /\ probe.total_score >= Pts(25) /\ probe.total_score < Pts(30)
    /\ verdict.value = "A"


-----------------------------------------------------------------------------
(* Specification SpecLedger: the processes that share the store.  Scans     *)
(* open positions, two performance crons run fetch_and_update_trades side   *)
(* by side, and the price tracker records snapshots.  A step is one SQL     *)
(* statement of the autocommit connection of TokenDatabase, or one whole    *)
(* pass of record_price_snapshot, whose INSERTs are committed together.     *)
(* In this specification cron maps each cron process to its locals.         *)

Crons == {"cron1", "cron2"}

\* the statements and passes that are followed
MaxOperations == 5

LedgerEntryPrices == {"0.001", "0.000000004"}

\* a value stored in a DECIMAL(10, 4) column
DecRound4(d) == IF d.e >= 0 - 4 THEN d ELSE Dec(RoundDiv(d.m, Pow10(0 - 4 - d.e)), 0 - 4)

\* what the DexScreener token endpoint may answer: no pairs (also for a status other than 200
\* and for a failed request), a pair whose price is not a number, a zero price, and two
\* pairs of which the second has the larger pool
TrackerQuotes ==
    {<<>>,
     <<[priceUsd |-> "n/a", liquidity |-> [usd |-> 100]]>>,
     <<[priceUsd |-> "0"]>>,
     <<[priceUsd |-> "0.001", liquidity |-> [usd |-> 100]],
       [priceUsd |-> "0.002", liquidity |-> [usd |-> 500]]>>}

\* lines 77-94: float(priceUsd) of the pair with the highest liquidity.usd, the first of
\* them on a tie; not ok stands for None, returned for no pairs and for any exception
get_token_price(pairs) ==
    IF pairs = <<>> THEN [ok |-> FALSE, value |-> 0]
    ELSE LET usd(n) == Get(Get(pairs[n], "liquidity", EmptyDict), "usd", 0)
             best_pair == pairs[CHOOSE n \in DOMAIN pairs :
                                   \A m \in DOMAIN pairs :
                                       usd(m) < usd(n) \/ (usd(m) = usd(n) /\ n <= m)]
         IN IF Get(best_pair, "priceUsd", "") = "" THEN [ok |-> FALSE, value |-> 0]
            ELSE float(best_pair.priceUsd)

\* lines 115-135: the row INSERTed for a trade at current_price
Snapshot(trade, current_price, now) ==
    LET buy_price_float == Usd(trade.buy_price_usd)
        amount_usd_float == Dec(trade.amount_usd, 0)
        change == DecSub(Usd(current_price), buy_price_float)
    IN [paper_trade_id |-> trade.id,
        token_address |-> trade.token_address,
        token_symbol |-> trade.token_symbol,
        price_usd |-> Usd(Decimal8(current_price)),
        performance_pct |-> DecRound4(DecMul(DecDiv(change, buy_price_float), Dec(100, 0))),
        profit_loss_usd |->
            DecRound8(DecMul(change, DecDiv(amount_usd_float, buy_price_float))),
        minutes_since_entry |-> (now - trade.buy_timestamp) \div 60,
        recorded_at |-> now]

\* lines 108-138: the loop over the open trades.  A trade without a price is passed over; a
\* zero buy price raises ZeroDivisionError, which the method does not catch; a database
\* Error at the failAt-th trade is caught.  Either ends the pass before its commit.
RECURSIVE SnapshotLoop(_, _, _, _, _, _)
SnapshotLoop(open_trades, quotes, k, failAt, now, recorded) ==
    IF k > Len(open_trades) THEN [outcome |-> "committed", recorded |-> recorded]
    ELSE LET trade == open_trades[k]
             current_price == get_token_price(quotes[k])
         IN IF ~current_price.ok \/ current_price.value = 0
            THEN SnapshotLoop(open_trades, quotes, k + 1, failAt, now, recorded)
            ELSE IF trade.buy_price_usd = 0
            THEN [outcome |-> "raised", recorded |-> <<>>]
            ELSE IF k = failAt
            THEN [outcome |-> "error", recorded |-> <<>>]
            ELSE SnapshotLoop(open_trades, quotes, k + 1, failAt, now,
                              Append(recorded, Snapshot(trade, current_price.value, now)))

NewLedgerCron == [pc |-> "idle", open_trades |-> <<>>, i |-> 1, seen |-> {}]

InitLedger ==
    /\ trades = <<>>
    /\ price_history = <<>>
    /\ cron = [c \in Crons |-> NewLedgerCron]
    /\ clock = ScanClock
    /\ journal = NoEvent
    /\ analysis = None
    /\ config = DefaultConfig
    /\ market_context = None
    /\ token_data = EmptyDict
    /\ faults = NoFaults
    /\ frame = Idle
    /\ result = None
    /\ probe = None
    /\ verdict = NoVerdict
    /\ bot = <<>>

LedgerFrame ==
    /\ clock' = clock + 60
    /\ UNCHANGED <<config, market_context, token_data, faults, frame, result, probe, verdict,
                   bot, analysis>>

Running == clock < ScanClock + 60 * MaxOperations

\* main.py lines 209-227: a scan opens a position at a price that passed its guard
OpenPosition ==
    /\ Running
    /\ \E token_address \in Addresses, price_usd \in LedgerEntryPrices, connected \in BOOLEAN :
          LET buy_price_usd == float(price_usd).value
              stored == store_paper_trade(trades, token_address, "MEME", buy_price_usd,
                                          PAPER_TRADE_AMOUNT_USD,
                                          DecDiv(Dec(PAPER_TRADE_AMOUNT_USD, 0),
                                                 Usd(buy_price_usd)),
                                          clock, connected)
          IN /\ trades' = stored.table
             /\ journal' = [outcome |-> IF stored.ok THEN "opened" ELSE "not_opened",
                            token_address |-> token_address]
    /\ UNCHANGED <<cron, price_history>>
    /\ LedgerFrame

\* cron lines 25-31: a run of a cron starts by reading the open trades
LedgerFetch(c) ==
    /\ Running
    /\ cron[c].pc = "idle"
    /\ \E connected \in BOOLEAN :
          cron' = [cron EXCEPT ![c] = [NewLedgerCron EXCEPT
                                          !.pc = "loop",
                                          !.open_trades = get_open_paper_trades(trades, connected)]]
    /\ journal' = [outcome |-> "fetched", caller |-> c]
    /\ UNCHANGED <<trades, price_history>>
    /\ LedgerFrame

\* cron lines 33-107: one pass of the loop of cron c, on the row it read when its run began
LedgerUpdate(c) ==
    /\ Running
    /\ cron[c].pc = "loop"
    /\ cron[c].i <= Len(cron[c].open_trades)
    /\ LET trade == cron[c].open_trades[cron[c].i]
           key == <<trade.token_symbol, trade.token_address>>
           skip(fetched) ==
               /\ cron' = [cron EXCEPT ![c].i = @ + 1,
                                       ![c].seen = IF fetched THEN @ \cup {key} ELSE @]
               /\ journal' = [outcome |-> "skipped", caller |-> c, trade_id |-> trade.id]
               /\ UNCHANGED trades
       IN IF trade.buy_price_usd = 0 \/ trade.amount_usd = 0 \/ trade.tokens_bought.m = 0
          THEN skip(FALSE)
          ELSE IF key \in cron[c].seen
          THEN skip(FALSE)
          ELSE \E pairs \in Quotes(trade) :
                  LET latest_price_usd == LatestPrice(pairs)
                  IN IF ~latest_price_usd.ok \/ latest_price_usd.value = 0
                     THEN skip(TRUE)
                     ELSE \E connected \in BOOLEAN :
                             LET pnl_usd == DecSub(DecMul(trade.tokens_bought,
                                                          Usd(latest_price_usd.value)),
                                                   Dec(trade.amount_usd, 0))
                                 updated == update_paper_trade_performance(
                                                trades, trade.id, latest_price_usd.value,
                                                pnl_usd, clock, connected)
                             IN /\ trades' = updated.table
                                /\ cron' = [cron EXCEPT ![c].i = @ + 1,
                                                        ![c].seen = @ \cup {key}]
                                /\ journal' = [outcome |-> "updated", caller |-> c,
                                               trade_id |-> trade.id,
                                               last_price_usd |-> latest_price_usd.value,
                                               profit_loss_usd |-> pnl_usd,
                                               stored |-> updated.ok,
                                               before |-> trades[trade.id]]
    /\ UNCHANGED price_history
    /\ LedgerFrame

\* cron lines 201-207: after the loop the cron builds and sends its report
LedgerReport(c) ==
    /\ Running
    /\ cron[c].pc = "loop"
    /\ cron[c].i > Len(cron[c].open_trades)
    /\ cron' = [cron EXCEPT ![c] = NewLedgerCron]
    /\ journal' = [outcome |-> "reported", caller |-> c]
    /\ UNCHANGED <<trades, price_history>>
    /\ LedgerFrame

\* price_tracker.py lines 96-156: one pass over the trades that are OPEN when it starts
record_price_snapshot ==
    /\ Running
    /\ \E connected \in BOOLEAN :
          IF ~connected
          THEN /\ journal' = [outcome |-> "not_connected"]
               /\ UNCHANGED price_history
          ELSE LET open_trades == SelectSeq(trades, LAMBDA row : row.status = "OPEN")
               IN \E quotes \in [DOMAIN open_trades -> TrackerQuotes],
                     failAt \in 0 .. Len(open_trades) :
                     LET pass == SnapshotLoop(open_trades, quotes, 1, failAt, clock, <<>>)
                     IN /\ price_history' = price_history \o pass.recorded
                        /\ journal' = [outcome |-> pass.outcome, open_trades |-> open_trades,
                                       quotes |-> quotes, recorded |-> pass.recorded]
    /\ UNCHANGED <<trades, cron>>
    /\ LedgerFrame

NextLedger ==
    \/ OpenPosition
    \/ \E c \in Crons : LedgerFetch(c) \/ LedgerUpdate(c) \/ LedgerReport(c)
    \/ record_price_snapshot

SpecLedger == InitLedger /\ [][NextLedger]_vars


-----------------------------------------------------------------------------
(* Properties of the shared store (SpecLedger) *)

\* the step is an UPDATE that one of the crons applied
UpdateApplied == journal'.outcome = "updated" /\ journal'.stored

\* C21: whatever the interleaving of the two crons, an applied update leaves on its position
\* the last price and the P/L of that one call, overwriting what an earlier call stored, and
\* leaves every other position as it was.
C21_LastWriteWins ==
    [][UpdateApplied =>
          /\ DOMAIN trades' = DOMAIN trades
          /\ \A n \in DOMAIN trades :
                IF trades[n].id = journal'.trade_id
                THEN /\ trades'[n].last_price_usd = Usd(Decimal8(journal'.last_price_usd))
                     /\ trades'[n].profit_loss_usd = DecRound8(journal'.profit_loss_usd)
                     /\ trades'[n].last_checked = [at |-> clock]
                ELSE trades'[n] = trades[n]]_vars

\* cron2 has overwritten the price and the P/L that an earlier update stored on a position,
\* while another position exists
C21_Witness ==
    /\ journal.outcome = "updated"
    /\ journal.stored
    /\ journal.before.last_price_usd # None
    /\ journal.before.last_price_usd # Usd(journal.last_price_usd)
    /\ trades[journal.trade_id].last_price_usd = Usd(journal.last_price_usd)
    /\ trades[journal.trade_id].profit_loss_usd = DecRound8(journal.profit_loss_usd)


\* the columns of a position that no statement of the code writes after the INSERT
Entry(row) ==
    [id |-> row.id, token_address |-> row.token_address, token_symbol |-> row.token_symbol,
     buy_price_usd |-> row.buy_price_usd, amount_usd |-> row.amount_usd,
     tokens_bought |-> row.tokens_bought, buy_timestamp |-> row.buy_timestamp,
     status |-> row.status]

\* C22: in every step of the opens, updates, tracker passes and reports, every position that
\* exists stays in the table with status OPEN and with its entry price, notional, quantity
\* and opened-at unchanged; only last price, P/L and last-checked-at may differ afterwards.
C22_PositionsPersist ==
    [][\A n \in DOMAIN trades :
          /\ n \in DOMAIN trades'
          /\ trades'[n].status = "OPEN"
          /\ Entry(trades'[n]) = Entry(trades[n])]_vars

\* a position that a cron has updated and the tracker has sampled, at the moment a scan's
\* second open of its token has failed
C22_Witness ==
    /\ journal.outcome = "not_opened"
    /\ \E n \in DOMAIN trades :
          /\ trades[n].token_address = journal.token_address
          /\ trades[n].status = "OPEN"
          /\ trades[n].last_price_usd # None
          /\ \E k \in DOMAIN price_history : price_history[k].paper_trade_id = trades[n].id


\* the step is a pass of record_price_snapshot
SnapshotPass == journal'.outcome \in {"committed", "raised", "error", "not_connected"}

OpenNow == SelectSeq(trades, LAMBDA row : row.status = "OPEN")

\* C23: each pass of record_price_snapshot appends exactly one sample for every position
\* that is OPEN at the pass, and leaves the samples recorded before as they were.
C23_OneSamplePerOpenPosition ==
    [][SnapshotPass =>
          /\ Len(price_history') = Len(price_history) + Len(OpenNow)
          /\ SubSeq(price_history', 1, Len(price_history)) = price_history
          /\ \A k \in DOMAIN OpenNow :
                price_history'[Len(price_history) + k].paper_trade_id = OpenNow[k].id]_vars

\* C23, the part the code keeps: no step changes or removes a recorded sample, and a pass
\* appends at most one sample for each open position, in the order of the positions.
C23_AppendOnly ==
    [][/\ Len(price_history') >= Len(price_history)
       /\ SubSeq(price_history', 1, Len(price_history)) = price_history
       /\ LET added == SubSeq(price_history', Len(price_history) + 1, Len(price_history'))
          IN /\ added # <<>> => SnapshotPass
             /\ \A k \in DOMAIN added :
                   /\ \E n \in DOMAIN OpenNow : OpenNow[n].id = added[k].paper_trade_id
                   /\ \A j \in DOMAIN added :
                         j < k => added[j].paper_trade_id < added[k].paper_trade_id]_vars

\* a pass in which every open position had a price and no statement failed, and which still
\* recorded nothing, because one position is stored with entry price 0
C23_PassLostToZeroEntry ==
    /\ journal.outcome = "raised"
    /\ Len(journal.open_trades) = 2
    /\ \A k \in DOMAIN journal.open_trades :
          LET current_price == get_token_price(journal.quotes[k])
          IN current_price.ok /\ current_price.value > 0
    /\ journal.recorded = <<>>


-----------------------------------------------------------------------------
(* The moment of an evaluation (SpecScore): _score_technical_foundation     *)
(* reads time.time() and _score_timing_factors reads datetime.utcnow().     *)

\* the result of evaluating the same snapshot under the same context at another moment
ResultAt(moment) ==
    comprehensive_score(token_data, market_context, moment, faults, config).result

\* C24: an evaluation of the same snapshot with the same market context at any other moment
\* returns the same contributions, flags, total and tier.
C24_SameResultAtAnyMoment ==
    (Evaluated /\ faults = NoFaults)
        => \A moment \in Clocks :
              /\ ResultAt(moment).category_scores = result.category_scores
              /\ ResultAt(moment).red_flags = result.red_flags
              /\ ResultAt(moment).total_score = result.total_score
              /\ ResultAt(moment).tier = result.tier

\* a snapshot whose tier is another one when it is evaluated at another moment
C24_TierDependsOnMoment ==
    /\ Evaluated
    /\ faults = NoFaults
    /\ \E moment \in Clocks : ResultAt(moment).tier # result.tier


-----------------------------------------------------------------------------
(* The speculative class in the scan (Spec) *)

\* one of the three tier rules of should_send_signal_comprehensive holds for the scored token
TierRuleHolds ==
    \/ journal.tier = "A" /\ config.SIGNAL_CRITERIA.tier_a_always
    \/ journal.tier = "B" /\ journal.total_score >= config.SIGNAL_CRITERIA.tier_b_min_score
    \/ journal.tier = "C" /\ journal.total_score >= config.SIGNAL_CRITERIA.tier_c_min_score

\* the pass scored a token that only the speculative rule selects
SpeculativeOnly ==
    /\ journal.outcome \in {"signal", "skipped"}
    /\ journal.candidate
    /\ ~TierRuleHolds

\* C25: a scored token that satisfies no tier rule but is a speculative candidate is not
\* handled as a primary signal (no trading signal, no paper trade) and is delivered by
\* send_speculative_signal.
C25_SpeculativeClassified ==
    SpeculativeOnly
        => /\ journal.outcome = "skipped"
           /\ journal.paper = "none"
           /\ "signal" \notin journal.sent
           /\ "speculative" \in journal.sent

\* C25, what the scan does instead: no pass ever reaches send_speculative_signal
C25_SpeculativeNeverSent == journal.outcome # "none" => "speculative" \notin journal.sent

\* a token that only the speculative rule selects, on its way to a paper trade
C25_SpeculativeTraded ==
    /\ SpeculativeOnly
    /\ journal.outcome = "signal"
    /\ journal.paper = "buying"


-----------------------------------------------------------------------------
(* Critical flags and the signal decision (Spec, SpecScore) *)

\* the pass scored a token whose evaluation raised a critical flag: only then is the risk
\* level of a result CRITICAL in a scan
CriticalScored ==
    /\ journal.outcome \in {"signal", "skipped"}
    /\ journal.risk_level = "CRITICAL"

\* C26: a token whose evaluation raised a critical flag is skipped by the scan: no signal is
\* decided or sent for it and no paper trade is prepared or stored for it, under the default
\* policy and under tierCMinScore = 25 with tierDNever off.
C26_CriticalNeverSignals ==
    CriticalScored
        => /\ journal.outcome = "skipped"
           /\ ~journal.should_signal
           /\ journal.paper = "none"
           /\ journal.sent \cap {"signal", "speculative"} = {}
           /\ bot[journal.bot].pc # "store"
           /\ bot[journal.bot].pending = None

\* a honeypot was scored and skipped by a bot whose policy lets tier D signal
C26_Witness ==
    /\ CriticalScored
    /\ journal.outcome = "skipped"
    /\ journal.total_score = 0
    /\ journal.tier = "D"
    /\ ~config.SIGNAL_CRITERIA.tier_d_never

\* the signal policies: every combination of tierAAlways, tierDNever and the minimum scores
\* 0, the default and 100
PolicyConfigs ==
    {[DefaultConfig EXCEPT !.SIGNAL_CRITERIA = criteria] :
        criteria \in [tier_a_always : BOOLEAN, tier_d_never : BOOLEAN,
                      tier_b_min_score : {0, Pts(TIER_B_MIN_SCORE), Pts(100)},
                      tier_c_min_score : {0, Pts(TIER_C_MIN_SCORE), Pts(100)}]}

\* C26 for the decision itself (SpecScore): whatever critical flag an evaluation raised,
\* should_send_signal_comprehensive is False on its result, as an object and as a dict, under
\* every signal policy, with and without speculative mode.
C26_NoPolicySignalsCritical ==
    (Evaluated /\ CriticalFlags(frame.red_flags) # <<>>)
        => \A cfg \in PolicyConfigs, speculative_mode \in BOOLEAN :
              /\ ~should_send_signal_comprehensive(result, speculative_mode, cfg)
              /\ ~should_send_signal_comprehensive(to_dict(result), speculative_mode, cfg)


-----------------------------------------------------------------------------
(* The market adjustment inside an evaluation (SpecScore) *)

\* a context for each weight table, and one naming a condition without a table
MarketConditions == {"bull_market", "bear_market", "sideways", "crab_market"}

\* C27: for the category scores of every evaluation that gets as far as the adjustment,
\* _apply_market_adjustments returns the base total under every market condition, and the
\* total of the result is the base total.
C27_AdjustmentChangesNothing ==
    (Evaluated /\ frame.path = "normal")
        => /\ result.total_score = frame.base_score
           /\ \A condition \in MarketConditions :
                 _apply_market_adjustments(frame.base_score, frame.scores,
                                           [condition |-> condition], FALSE)
                     = frame.base_score

\* an evaluation under the sideways context of the scan, with safety and community points
\* that the sideways table would weigh by 1.1, whose total stayed the base total
C27_Witness ==
    /\ Evaluated
    /\ frame.path = "normal"
    /\ market_context = _get_market_context
    /\ frame.scores.on_chain_health > 0
    /\ frame.scores.community_signals > 0
    /\ frame.base_score > 0
    /\ frame.base_score < Pts(90)
    /\ result.total_score = frame.base_score


-----------------------------------------------------------------------------
(* Speculative mode under the default configuration (SpecScore) *)

\* C28: under the configuration of config.py's defaults, on the result of every evaluation,
\* as an object and as a dict, should_send_signal_comprehensive answers the same with
\* speculative mode on and off.
C28_SpeculativeModeChangesNothing ==
    Evaluated
        => /\ should_send_signal_comprehensive(result, TRUE, config)
                = should_send_signal_comprehensive(result, FALSE, config)
           /\ should_send_signal_comprehensive(to_dict(result), TRUE, config)
                = should_send_signal_comprehensive(to_dict(result), FALSE, config)

\* a speculative candidate, which the tier-C rule signals without speculative mode
C28_Witness ==
    /\ Evaluated
    /\ is_speculative_candidate(result)
    /\ result.tier = "C"
    /\ should_send_signal_comprehensive(to_dict(result), FALSE, config)
    /\ should_send_signal_comprehensive(to_dict(result), TRUE, config)


-----------------------------------------------------------------------------
(* The in-memory paper_trades list of a bot against the stored positions (Spec) *)

\* C29: whenever a bot's paper_trades list grows, the step is a store_paper_trade call of
\* that bot that created the position row; a create that fails adds no local entry.
C29_LocalEntriesAreStoredRows ==
    [][\A b \in Bots :
          bot'[b].paper_trades # bot[b].paper_trades
              => /\ journal'.bot = b
                 /\ journal'.paper = "created"
                 /\ Len(trades') = Len(trades) + 1]_vars

\* every store_paper_trade call of the scan is followed by a local entry, created or not
C29_EveryAttemptCounted ==
    [][\A b \in Bots :
          bot[b].pc = "store" /\ bot'[b] # bot[b]
              => Len(bot'[b].paper_trades) = Len(bot[b].paper_trades) + 1]_vars

\* a bot holds more local entries than the store holds rows: its "Total Invested" counts
\* a position that does not exist
C29_InvestedWithoutPosition ==
    /\ journal.outcome = "paper_trade"
    /\ journal.paper \in {"duplicate", "storage_error"}
    /\ Len(bot[journal.bot].paper_trades) > Len(trades)


-----------------------------------------------------------------------------
(* A failure on one token and the rest of the scan (SpecScan) *)

\* the longest discovered list of SpecScan
ScanLength == 2

ListedTokens == UNION {[1 .. n -> Addresses] : n \in 0 .. ScanLength}

\* one bot is about to scan; the other has ended a scan that discovered nothing
InitScan ==
    /\ config \in ScanConfigs
    /\ clock = ScanClock
    /\ market_context = _get_market_context
    /\ token_data = EmptyDict
    /\ faults = NoFaults
    /\ frame = Idle
    /\ result = None
    /\ probe = None
    /\ verdict = NoVerdict
    /\ trades = <<>>
    /\ bot = [b \in Bots |-> IF b = "bot1" THEN NewBot ELSE [NewBot EXCEPT !.pc = "done"]]
    /\ journal = NoEvent
    /\ cron = NoCron
    /\ price_history = <<>>
    /\ analysis = None

\* lines 101-118 with the longer lists
StartListedScan(b) ==
    /\ bot[b].pc = "idle"
    /\ \E boosted_tokens \in ListedTokens :
          bot' = [bot EXCEPT ![b].boosted_tokens = boosted_tokens,
                             ![b].i = 1,
                             ![b].analyzed_tokens = <<>>,
                             ![b].pc = IF boosted_tokens = <<>> THEN "done" ELSE "analyze"]
    /\ journal' = Event(b, "", IF Len(bot'[b].boosted_tokens) = 0 THEN "no_tokens" ELSE "discovered")
    /\ UNCHANGED trades
    /\ ScanFrame

NextScan ==
    \E b \in Bots : StartListedScan(b) \/ AnalyzeToken(b) \/ StorePaperTrade(b) \/ EndScan(b)

\* a scan that has started keeps running: the loop body of lines 119-288 has no wait but
\* time.sleep(1), and the collaborators return or raise
SpecScan ==
    /\ InitScan
    /\ [][NextScan]_vars
    /\ \A b \in Bots : WF_vars(AnalyzeToken(b) \/ StorePaperTrade(b) \/ EndScan(b))

\* one step of the scan of bot b, from the loop or from the store of a paper trade
ScanStep(b) == bot[b].pc \in {"analyze", "store"} /\ bot'[b] # bot[b]

\* the signals collected so far are kept, with at most the current token added
SignalsKept(b) ==
    \/ bot'[b].analyzed_tokens = bot[b].analyzed_tokens
    \/ bot'[b].analyzed_tokens = Append(bot[b].analyzed_tokens, CurrentToken(b))

\* C30: a pass that fails on its token (pairs, risk assessment, scoring, the store of the
\* paper position) changes nothing but the position in the list; every pass handles the
\* token at the current position and moves on by exactly one, so the tokens are analysed in
\* list order; the scan ends only after the last token, with the signals collected so far,
\* and every started scan does end.
C30_FailureSkipsOneToken ==
    /\ [][\A b \in Bots :
             ScanStep(b)
                 => /\ bot'[b].boosted_tokens = bot[b].boosted_tokens
                    /\ bot'[b].pc = "done"
                           => /\ bot[b].i > Len(bot[b].boosted_tokens)
                              /\ bot'[b].analyzed_tokens = bot[b].analyzed_tokens
                    /\ bot'[b].pc = "store"
                           => /\ bot'[b].i = bot[b].i
                              /\ bot'[b].analyzed_tokens = bot[b].analyzed_tokens
                    /\ bot'[b].pc = "analyze"
                           => /\ bot'[b].i = bot[b].i + 1
                              /\ journal'.bot = b
                              /\ journal'.token_address = CurrentToken(b)
                              /\ SignalsKept(b)
                    /\ journal'.outcome \in SkipOutcomes
                           => /\ bot'[b].pc = "analyze"
                              /\ bot'[b].analyzed_tokens = bot[b].analyzed_tokens
                              /\ bot'[b].paper_trades = bot[b].paper_trades
                              /\ trades' = trades
                    /\ journal'.outcome = "paper_trade" /\ journal'.paper # "created"
                           => /\ bot'[b].pc = "analyze"
                              /\ trades' = trades]_vars
    /\ \A b \in Bots : (bot[b].pc \in {"analyze", "store"}) ~> (bot[b].pc = "done")

\* the first token of a list of two failed; the second is still to be analysed
C30_Witness ==
    \E b \in Bots :
        /\ journal.outcome \in SkipOutcomes \ {"no_pairs"}
        /\ journal.bot = b
        /\ bot[b].pc = "analyze"
        /\ bot[b].i = 2
        /\ Len(bot[b].boosted_tokens) = 2
        /\ journal.token_address = bot[b].boosted_tokens[1]

=============================================================================
